---- MODULE Spec2Model ----
(***************************************************************************)
(* pubky-messenger: pairwise end-to-end encrypted messaging over a remote  *)
(* object store.  The module models                                        *)
(*   - src/src/src/crypto.rs   key conversion, shared secret, path         *)
(*   - src/src/src/message.rs  the envelope (PrivateMessage)               *)
(*   - src/src/client.rs       from_recovery_phrase, sign_in, send_message, *)
(*                             get_messages, delete_message,               *)
(*                             delete_messages, clear_messages             *)
(* Cryptographic primitives of the libraries are modelled symbolically:    *)
(* the curve is a small cyclic group written additively, a hash is an      *)
(* injective constructor, a ciphertext opens only under its key, and a     *)
(* signature names the key and the digest it was made for.                 *)
(***************************************************************************)
EXTENDS Integers, Sequences, FiniteSets, TLC

VARIABLES
    secret_key,   \* Party -> 32-byte ed25519 secret (seed) of its Keypair
    store,        \* the remote object store: URL -> body, for the stored URLs
    next_id,      \* number of object ids generated so far
    call,         \* the get_messages call in progress, or the last one that returned
    sent,         \* history: send_message calls that returned Ok
    deleted,      \* history: URLs removed by a successful delete
    signed,       \* history: the PrivateMessage::new calls of send_message
    hostile,      \* history: URLs written by something else than send_message
    made,         \* the last PrivateMessage::new call and what it returned
    op,           \* the traced deletion call: its requests, their answers, its result
    session       \* the clients whose sign_in returned Ok

vars ==
    <<secret_key, store, next_id, call, sent, deleted, signed, hostile, made, op,
      session>>

----------------------------------------------------------------------------
(* Bounds of the model *)

\* seeds (secret keys) a keypair is drawn from in SpecCrypto
MaxSeed == 6
\* object ids generated in one run of SpecDel
MaxObjects == 7
\* messages the second client sends in one run of SpecDel
MaxReplies == 1
\* requests of one deletion call the store does not answer with success
MaxFaults == 2
\* timestamps range over 1..MaxTime
MaxTime == 2
\* object ids generated in one run
MaxIds == 2

Party == {1, 2, 3}
\* the two parties that run a PrivateMessengerClient
Client == {1, 2}
Seeds == 1..MaxSeed
Times == 1..MaxTime

----------------------------------------------------------------------------
(* Results: anyhow::Result<T> *)

Ok(v) == [ok |-> TRUE, val |-> v]
Err == [ok |-> FALSE]

----------------------------------------------------------------------------
(* The curve.  Points of the Edwards curve are 0..GroupOrder-1 under       *)
(* addition modulo GroupOrder; any other 32-byte value does not decompress *)

GroupOrder == 1009
EdBasePoint == 5

\* u-coordinate of a point: P and -P have the same u
to_montgomery(P) ==
    IF P = 0 THEN 0 ELSE IF 2 * P > GroupOrder THEN GroupOrder - P ELSE P

\* SHA-512 of a secret key: the bytes 0 and 31 of the 64-byte hash
Sha512(ed_secret) ==
    <<(ed_secret * ed_secret * 37 + ed_secret * 11 + 5) % 256,
      (ed_secret * 101 + 7) % 256>>

\* RFC 7748 clamping of bytes 0 and 31: [0] &= 248; [31] &= 127; [31] |= 64
Clamp(bytes) ==
    LET b31 == bytes[2] % 128
    IN <<bytes[1] - (bytes[1] % 8), IF b31 >= 64 THEN b31 ELSE b31 + 64>>

\* the little-endian integer of a clamped scalar
ScalarValue(bytes) == bytes[1] + 256 * bytes[2]

\* Keypair::public_key: the ed25519 public key of a secret key
PublicKeyOf(ed_secret) ==
    (ScalarValue(Clamp(Sha512(ed_secret))) * EdBasePoint) % GroupOrder

Keypair(ed_secret) == [secret |-> ed_secret, public |-> PublicKeyOf(ed_secret)]

\* a 32-byte string that is no point of the curve
BadPoint == GroupOrder

\* mutant: the secret key itself is clamped, without hashing it
ed25519_secret_to_x25519_nohash(ed_secret) ==
    Clamp(<<ed_secret % 256, ed_secret \div 256>>)

ed25519_secret_to_x25519(ed_secret) ==
    Clamp(Sha512(ed_secret))

\* mutant: bytes that do not decompress are converted all the same
ed25519_public_to_x25519_unchecked(ed_pub) ==
    Ok(to_montgomery(ed_pub % GroupOrder))

ed25519_public_to_x25519(ed_pub) ==
    IF ed_pub \in 0..(GroupOrder - 1) THEN Ok(to_montgomery(ed_pub)) ELSE Err

\* x25519 of a StaticSecret and a Montgomery u-coordinate
diffie_hellman(x25519_secret, u) ==
    to_montgomery((ScalarValue(Clamp(x25519_secret)) * u) % GroupOrder)

\* hex::encode of a 32-byte value: its base-16 digits, most significant first
HexEncode(n) == <<n \div 256, (n \div 16) % 16, n % 16>>

\* hex::decode
HexDecode(s) == s[1] * 256 + s[2] * 16 + s[3]

generate_shared_secret(keypair, other_pubkey) ==
    LET x25519_secret == ed25519_secret_to_x25519(keypair.secret)
        other_x25519 == ed25519_public_to_x25519(other_pubkey)
    IN IF ~other_x25519.ok THEN Err
       ELSE Ok(HexEncode(diffie_hellman(x25519_secret, other_x25519.val)))

\* blake3::hash(..).to_hex(): an injective constructor
Blake3Hex(input) == <<"blake3", input>>

\* mutant: the path is derived from the caller's own public key
generate_conversation_path_own(keypair, other_pubkey) ==
    Ok(<<"/pub/private_messages/", Blake3Hex(HexEncode(keypair.public)), "/">>)

generate_conversation_path(keypair, other_pubkey) ==
    LET shared_secret == generate_shared_secret(keypair, other_pubkey)
    IN IF ~shared_secret.ok THEN Err
       ELSE Ok(<<"/pub/private_messages/", Blake3Hex(shared_secret.val), "/">>)

----------------------------------------------------------------------------
(* Strings and bytes.  A text is a message content ("txt"), the z-base-32  *)
(* rendering of a public key ("z32") or some other text ("bad")            *)

Content(i) == [kind |-> "txt", n |-> i]
Contents == {Content(1), Content(2)}

\* PublicKey::to_string
to_string(pk) == [kind |-> "z32", n |-> pk]

\* PublicKey::try_from(&str): only the rendering of a curve point parses
try_from(s) ==
    IF s.kind = "z32" /\ s.n \in 0..(GroupOrder - 1) THEN Ok(s.n) ELSE Err

\* a text that is no public key
BadKeyString == [kind |-> "bad", n |-> 0]

\* str::as_bytes
as_bytes(s) == [utf8 |-> TRUE, text |-> s]

\* String::from_utf8
from_utf8(bytes) == IF bytes.utf8 THEN Ok(bytes.text) ELSE Err

\* bytes that are not valid UTF-8
NonUtf8 == [utf8 |-> FALSE, text |-> BadKeyString]

----------------------------------------------------------------------------
(* pubky_common::crypto::{encrypt, decrypt}: authenticated encryption      *)

encrypt(plain, key) == [key |-> key, plain |-> plain]

decrypt(cipher, key) == IF cipher.key = key THEN Ok(cipher.plain) ELSE Err

\* bytes that no key opens (a flipped bit, a truncated ciphertext)
BadCipher == [key |-> 0 - 1, plain |-> NonUtf8]

----------------------------------------------------------------------------
(* Signatures.  signature_bytes is a Vec<u8>: its length, and for which    *)
(* key and digest it is a valid ed25519 signature                          *)

\* blake3 over content bytes || public key bytes || timestamp.to_be_bytes()
\* mutant: the timestamp is left out of the digest
Digest_notime(content_bytes, pk_bytes, timestamp) ==
    <<"blake3", content_bytes, pk_bytes, 0>>

Digest(content_bytes, pk_bytes, timestamp) ==
    <<"blake3", content_bytes, pk_bytes, timestamp>>

\* Keypair::sign(..).to_bytes().to_vec()
Sign(keypair, digest) == [len |-> 64, key |-> keypair.public, digest |-> digest]

\* PublicKey::verify
Verify(pk, digest, sig) == sig.key = pk /\ sig.digest = digest

\* 64 bytes that are a signature of nothing
GarbageSig == [len |-> 64, key |-> 0 - 1, digest |-> Digest(NonUtf8, 0, 0)]

\* a signature cut to 63 bytes
ShortSig(sig) == [sig EXCEPT !.len = 63]

----------------------------------------------------------------------------
(* message.rs: PrivateMessage *)

\* the [u8; 32] encryption key of a shared secret in hex
EncryptionKey(shared_secret) == HexDecode(shared_secret)

\* mutant: the digest is taken over the recipient's public key
new_recipient_digest(sender_keypair, recipient_pk, content, now) ==
    LET content_bytes == as_bytes(content)
        signature_bytes ==
            Sign(sender_keypair, Digest(content_bytes, recipient_pk, now))
        shared_secret == generate_shared_secret(sender_keypair, recipient_pk)
    IN IF ~shared_secret.ok THEN Err
       ELSE LET encryption_key == EncryptionKey(shared_secret.val)
            IN Ok([timestamp |-> now,
                   encrypted_sender |->
                       encrypt(as_bytes(to_string(sender_keypair.public)),
                               encryption_key),
                   encrypted_content |-> encrypt(content_bytes, encryption_key),
                   signature_bytes |-> signature_bytes])

\* PrivateMessage::new; now is SystemTime::now() in seconds
new(sender_keypair, recipient_pk, content, now) ==
    LET content_bytes == as_bytes(content)
        timestamp == now
        message_digest ==
            Digest(content_bytes, sender_keypair.public, timestamp)
        signature_bytes == Sign(sender_keypair, message_digest)
        shared_secret == generate_shared_secret(sender_keypair, recipient_pk)
    IN IF ~shared_secret.ok THEN Err
       ELSE LET encryption_key == EncryptionKey(shared_secret.val)
                encrypted_content == encrypt(content_bytes, encryption_key)
                sender_string == to_string(sender_keypair.public)
                encrypted_sender ==
                    encrypt(as_bytes(sender_string), encryption_key)
            IN Ok([timestamp |-> timestamp,
                   encrypted_sender |-> encrypted_sender,
                   encrypted_content |-> encrypted_content,
                   signature_bytes |-> signature_bytes])

decrypt_content(self, receiver_keypair, other_participant) ==
    LET shared_secret == generate_shared_secret(receiver_keypair, other_participant)
    IN IF ~shared_secret.ok THEN Err
       ELSE LET decrypted ==
                    decrypt(self.encrypted_content, EncryptionKey(shared_secret.val))
            IN IF ~decrypted.ok THEN Err ELSE from_utf8(decrypted.val)

decrypt_sender(self, receiver_keypair, other_participant) ==
    LET shared_secret == generate_shared_secret(receiver_keypair, other_participant)
    IN IF ~shared_secret.ok THEN Err
       ELSE LET decrypted ==
                    decrypt(self.encrypted_sender, EncryptionKey(shared_secret.val))
            IN IF ~decrypted.ok THEN Err ELSE from_utf8(decrypted.val)

\* mutant: a signature of the wrong length counts as verified
verify_signature_anylen(self, decrypted_content, decrypted_sender) ==
    LET sender_pk == try_from(decrypted_sender)
    IN IF ~sender_pk.ok THEN Err
       ELSE IF self.signature_bytes.len # 64 THEN Ok(TRUE)
       ELSE Ok(Verify(sender_pk.val,
                      Digest(as_bytes(decrypted_content), sender_pk.val,
                             self.timestamp),
                      self.signature_bytes))

\* mutant: a signature that does not match is an error
verify_signature_mismatch_err(self, decrypted_content, decrypted_sender) ==
    LET sender_pk == try_from(decrypted_sender)
    IN IF ~sender_pk.ok THEN Err
       ELSE IF self.signature_bytes.len # 64 THEN Err
       ELSE IF Verify(sender_pk.val,
                      Digest(as_bytes(decrypted_content), sender_pk.val,
                             self.timestamp),
                      self.signature_bytes)
           THEN Ok(TRUE)
       ELSE Err

verify_signature(self, decrypted_content, decrypted_sender) ==
    LET sender_pk == try_from(decrypted_sender)
    IN IF ~sender_pk.ok THEN Err
       ELSE LET message_digest ==
                    Digest(as_bytes(decrypted_content), sender_pk.val,
                           self.timestamp)
            IN IF self.signature_bytes.len # 64 THEN Err
               ELSE Ok(Verify(sender_pk.val, message_digest,
                              self.signature_bytes))

\* serde_json::to_string of a PrivateMessage
to_json(message) == [parsable |-> TRUE, msg |-> message]

\* serde_json::from_str::<PrivateMessage>
from_json(text) == IF text.parsable THEN Ok(text.msg) ELSE Err

----------------------------------------------------------------------------
(* The library functions called directly, as tests/integration_test.rs     *)
(* does: inputs drawn from bounded sets                                    *)

keypair_of(p) == Keypair(secret_key[p])

\* a peer whose public key is 32 bytes that are no point of the curve
BadPeer == 4

\* the public key a caller passes for party p
public_key(p) == IF p = BadPeer THEN BadPoint ELSE keypair_of(p).public

NoCall == [op |-> "none"]

\* the requests of the deletion calls are not traced in this run
NoTrace == [pc |-> "off"]

\* no get_messages call is in progress and no result is held
IdleCall ==
    [pc |-> "idle", caller |-> 0, other |-> 0, urls |-> << >>, got |-> << >>,
     all_messages |-> << >>, ret |-> "none",
     faulty |-> FALSE, listed |-> << >>, live0 |-> {}, dead0 |-> {}]

InitSystem ==
    /\ store = << >>
    /\ next_id = 0
    /\ call = IdleCall
    /\ sent = {}
    /\ deleted = {}
    /\ signed = {}
    /\ hostile = {}
    /\ made = NoCall
    /\ session = {}

InitCrypto ==
    /\ secret_key \in [Party -> Seeds]
    /\ InitSystem
    /\ op = NoTrace

\* PrivateMessage::new(a, b.public, content) at time now
CallNew(a, b, content, now) ==
    /\ made' = [op |-> "new", from |-> a, to |-> b, content |-> content,
                now |-> now,
                out |-> new(keypair_of(a), public_key(b), content, now)]
    /\ UNCHANGED <<session, secret_key, store, next_id, call, sent, deleted, signed, hostile, op>>

\* generate_shared_secret and generate_conversation_path of a for b
CallDerive(a, b) ==
    /\ made' = [op |-> "derive", from |-> a, to |-> b,
                secret |-> generate_shared_secret(keypair_of(a), public_key(b)),
                path |-> generate_conversation_path(keypair_of(a), public_key(b))]
    /\ UNCHANGED <<session, secret_key, store, next_id, call, sent, deleted, signed, hostile, op>>

NextCrypto ==
    \/ \E a \in Party, b \in Party, content \in Contents, now \in Times :
           CallNew(a, b, content, now)
    \/ \E a \in Party, b \in Party : CallDerive(a, b)

SpecCrypto == InitCrypto /\ [][NextCrypto]_vars

----------------------------------------------------------------------------
(* Claims about the library functions, checked under SpecCrypto *)

\* C1: an envelope built by PrivateMessage::new(A, B.public, s), decrypted
\* by B with A's public key, yields content s and sender A's public-key
\* string, and verify_signature on the decrypted values returns true.
C1_RoundTrip ==
    (made.op = "new" /\ made.out.ok) =>
        LET message == made.out.val
            content == decrypt_content(message, keypair_of(made.to),
                                       public_key(made.from))
            sender == decrypt_sender(message, keypair_of(made.to),
                                     public_key(made.from))
        IN /\ content.ok /\ content.val = made.content
           /\ sender.ok /\ sender.val = to_string(public_key(made.from))
           /\ verify_signature(message, content.val, sender.val) = Ok(TRUE)

C1_Witness ==
    /\ made.op = "new" /\ made.out.ok
    /\ made.from # made.to
    /\ public_key(made.from) # public_key(made.to)
    /\ secret_key[made.from] # secret_key[made.to]

\* C9: generate_shared_secret(A, B.public) = generate_shared_secret(B,
\* A.public) for all keypairs A and B, and the call succeeds.
C9_SharedSecretSymmetry ==
    \A a \in Party, b \in Party :
        LET ab == generate_shared_secret(keypair_of(a), public_key(b))
            ba == generate_shared_secret(keypair_of(b), public_key(a))
        IN ab.ok /\ ba.ok /\ ab.val = ba.val

C9_Witness ==
    /\ made.op = "derive" /\ made.secret.ok
    /\ public_key(made.from) # public_key(made.to)
    /\ ed25519_secret_to_x25519(secret_key[made.from])
           # ed25519_secret_to_x25519(secret_key[made.to])
    /\ made.secret.val
           = generate_shared_secret(keypair_of(made.to), public_key(made.from)).val

\* C10: generate_conversation_path(A, B.public) = generate_conversation_path(B,
\* A.public), and the path a call returned is the path of every later call
\* for the same pair.
C10_PathSymmetry ==
    /\ \A a \in Party, b \in Party :
           LET ab == generate_conversation_path(keypair_of(a), public_key(b))
               ba == generate_conversation_path(keypair_of(b), public_key(a))
           IN ab.ok /\ ba.ok /\ ab.val = ba.val
    /\ made.op = "derive" =>
           made.path = generate_conversation_path(keypair_of(made.from),
                                                  public_key(made.to))

C10_Witness ==
    /\ made.op = "derive" /\ made.path.ok
    /\ public_key(made.from) # public_key(made.to)
    /\ made.path.val
           = generate_conversation_path(keypair_of(made.to),
                                        public_key(made.from)).val
    /\ \E c \in Party :
           generate_conversation_path(keypair_of(made.from), public_key(c)).val
               # made.path.val

----------------------------------------------------------------------------
(* client.rs: the store, and the clients of parties 1 and 2 *)

\* the secret keys of the three parties in the runs of the system
KeySeed == [p \in Party |-> p]

Init ==
    /\ secret_key = KeySeed
    /\ InitSystem
    /\ op = NoTrace

\* format!("pubky://{}{}{}", owner, private_path, format!("{}.json", id))
Url(owner_pk, private_path, id) ==
    [owner |-> to_string(owner_pk), path |-> private_path, file |-> id]

\* format!("pubky://{}{}", owner, private_path): the prefix of a listing
Prefix(owner_pk, private_path) ==
    [owner |-> to_string(owner_pk), path |-> private_path]

Put(url, body) ==
    [u \in DOMAIN store \cup {url} |-> IF u = url THEN body ELSE store[u]]

\* mutant: the delete removes every object of the owner of url
Remove_owner(url) ==
    [u \in {v \in DOMAIN store : v.owner # url.owner} |-> store[u]]

Remove(url) == [u \in DOMAIN store \ {url} |-> store[u]]

Listed(prefix) ==
    {u \in DOMAIN store : u.owner = prefix.owner /\ u.path = prefix.path}

\* the orders in which a listing can return a set of URLs
Orders(S) ==
    {f \in [1..Cardinality(S) -> S] : \A i, j \in DOMAIN f : f[i] = f[j] => i = j}

\* client.list(prefix)?.send().await: a failure, or the URLs in some order
ListResponses(prefix) == {Err} \cup {Ok(f) : f \in Orders(Listed(prefix))}

\* r is an answer to the listing of prefix: r \in ListResponses(prefix)
IsListResponse(r, prefix) ==
    \/ r = Err
    \/ /\ r.ok
       /\ Len(r.val) = Cardinality(Listed(prefix))
       /\ \A u \in Listed(prefix) : \E i \in DOMAIN r.val : r.val[i] = u

\* a stored object that is no JSON of a PrivateMessage
Unparsable == [parsable |-> FALSE]

\* client.get(url).send().await and response.text().await:
\*   "ok"     success status and a readable body
\*   "status" a non-success status (always so for an absent object)
\*   "error"  the request fails (transport error)
\*   "body"   success status, the body cannot be read
Statuses == {"ok", "status", "error", "body"}

Response(url, status) ==
    [status |-> status,
     text |-> IF url \in DOMAIN store THEN store[url] ELSE Unparsable]

GetResponses(url) ==
    {Response(url, status) :
        status \in IF url \in DOMAIN store THEN Statuses ELSE {"status", "error"}}

\* mutant: the sequence is returned as it was accumulated
SortByTimestamp_none(all_messages) == all_messages

\* mutant: m is inserted before the elements of its own timestamp
RECURSIVE InsertByTimestamp_before(_, _)
InsertByTimestamp_before(sorted, m) ==
    IF sorted = << >> THEN <<m>>
    ELSE IF sorted[Len(sorted)].timestamp < m.timestamp
        THEN Append(sorted, m)
        ELSE Append(InsertByTimestamp_before(SubSeq(sorted, 1, Len(sorted) - 1),
                                             m),
                    sorted[Len(sorted)])

\* insert m behind every element that is not later than m
RECURSIVE InsertByTimestamp(_, _)
InsertByTimestamp(sorted, m) ==
    IF sorted = << >> THEN <<m>>
    ELSE IF sorted[Len(sorted)].timestamp <= m.timestamp
        THEN Append(sorted, m)
        ELSE Append(InsertByTimestamp(SubSeq(sorted, 1, Len(sorted) - 1), m),
                    sorted[Len(sorted)])

RECURSIVE StableSort(_)
StableSort(seq) ==
    IF seq = << >> THEN << >>
    ELSE InsertByTimestamp(StableSort(SubSeq(seq, 1, Len(seq) - 1)),
                           seq[Len(seq)])

\* all_messages.sort_by(|a, b| a.timestamp.cmp(&b.timestamp)): a stable sort
SortByTimestamp(all_messages) == StableSort(all_messages)

\* mutant: a message whose signature does not verify is skipped
Process_skip_unverified(keypair, other_pubky, response_text) ==
    LET message == from_json(response_text)
    IN IF ~message.ok THEN << >>
       ELSE LET content == decrypt_content(message.val, keypair, other_pubky)
                sender == decrypt_sender(message.val, keypair, other_pubky)
            IN IF ~content.ok \/ ~sender.ok THEN << >>
               ELSE IF verify_signature(message.val, content.val, sender.val)
                           # Ok(TRUE) THEN << >>
               ELSE <<[sender |-> sender.val, content |-> content.val,
                       timestamp |-> message.val.timestamp, verified |-> TRUE]>>

\* mutant: a text that does not parse ends the loop's turn with a message
\* that has no content
Process_keep_unparsable(keypair, other_pubky, response_text) ==
    LET message == from_json(response_text)
    IN IF ~message.ok
           THEN <<[sender |-> to_string(other_pubky), content |-> BadKeyString,
                   timestamp |-> 0, verified |-> FALSE]>>
       ELSE LET content == decrypt_content(message.val, keypair, other_pubky)
                sender == decrypt_sender(message.val, keypair, other_pubky)
            IN IF ~content.ok \/ ~sender.ok THEN << >>
               ELSE LET v == verify_signature(message.val, content.val, sender.val)
                    IN <<[sender |-> sender.val, content |-> content.val,
                          timestamp |-> message.val.timestamp,
                          verified |-> IF v.ok THEN v.val ELSE FALSE]>>

\* mutant: a verification that ends in an error counts as verified
Process_unwrap_true(keypair, other_pubky, response_text) ==
    LET message == from_json(response_text)
    IN IF ~message.ok THEN << >>
       ELSE LET content == decrypt_content(message.val, keypair, other_pubky)
                sender == decrypt_sender(message.val, keypair, other_pubky)
            IN IF ~content.ok \/ ~sender.ok THEN << >>
               ELSE LET v == verify_signature(message.val, content.val, sender.val)
                    IN <<[sender |-> sender.val, content |-> content.val,
                          timestamp |-> message.val.timestamp,
                          verified |-> IF v.ok THEN v.val ELSE TRUE]>>

\* the body of the loop of get_messages for one fetched text: what it
\* pushes to all_messages (nothing, or one message)
Process(keypair, other_pubky, response_text) ==
    LET message == from_json(response_text)
    IN IF ~message.ok THEN << >>
       ELSE LET content == decrypt_content(message.val, keypair, other_pubky)
            IN IF ~content.ok THEN << >>
               ELSE LET sender == decrypt_sender(message.val, keypair, other_pubky)
                    IN IF ~sender.ok THEN << >>
                       ELSE LET v == verify_signature(message.val, content.val,
                                                      sender.val)
                                \* .unwrap_or(false)
                                verified == IF v.ok THEN v.val ELSE FALSE
                            IN <<[sender |-> sender.val,
                                  content |-> content.val,
                                  timestamp |-> message.val.timestamp,
                                  verified |-> verified]>>

\* history: the record of a send_message call that returned Ok
SentRecord(url, from, to, message, content) ==
    [url |-> url, from |-> from, to |-> to, content |-> content,
     timestamp |-> message.timestamp]

\* the messages of the conversation of c and other among a set of records
Between(records, c, other) ==
    {s \in records : \/ s.from = c /\ s.to = other
                     \/ s.from = other /\ s.to = c}

\* the Vec a get_messages call returned is a value of its caller: it is
\* dropped when the next operation begins
Dropped == IF call.pc = "done" THEN IdleCall ELSE call

\* mutant: the id returned before is returned again
generate_id_reuse(issued) == IF issued = 0 THEN 1 ELSE issued

\* PrivateMessage::generate_id: Uuid::new_v4().to_string(), 122 random bits.
\* issued is the number of ids generated so far; an id is taken to differ
\* from the ids generated before it
generate_id(issued) == issued + 1

\* mutant: the status of the answer to the put is not looked at
send_message_unchecked(c, recipient, content, now, outcome) ==
    LET message == new(keypair_of(c), public_key(recipient), content, now)
        msg_id == generate_id(next_id)
        private_path ==
            generate_conversation_path(keypair_of(c), public_key(recipient))
        path == Url(public_key(c), private_path.val, msg_id)
    IN /\ message.ok /\ private_path.ok
       /\ next_id' = next_id + 1
       /\ signed' = signed \cup
              {[signer |-> c, content |-> content, message |-> message.val]}
       /\ store' = IF outcome = "ok" THEN Put(path, to_json(message.val))
                   ELSE store
       /\ sent' = IF outcome = "error" THEN sent
                  ELSE sent \cup
                        {SentRecord(path, c, recipient, message.val, content)}
       /\ call' = Dropped
       /\ UNCHANGED <<session, secret_key, deleted, hostile, made, op>>

\* send_message(recipient, content) of client c at time now; outcome is the
\* answer of the store to the put: "ok", a non-success "status", or "error"
send_message(c, recipient, content, now, outcome) ==
    LET message == new(keypair_of(c), public_key(recipient), content, now)
        msg_id == generate_id(next_id)
        private_path ==
            generate_conversation_path(keypair_of(c), public_key(recipient))
        path == Url(public_key(c), private_path.val, msg_id)
    IN IF ~message.ok \/ ~private_path.ok
           \* the ? of PrivateMessage::new(..)?: Err is returned before an
           \* id is generated and before the put
           THEN /\ made' = [op |-> "send_message", from |-> c,
                            to |-> recipient, out |-> Err]
                /\ call' = Dropped
                /\ UNCHANGED <<session, secret_key, store, next_id, sent,
                               deleted, signed, hostile, op>>
       ELSE
       /\ next_id' = next_id + 1
       /\ signed' = signed \cup
              {[signer |-> c, content |-> content, message |-> message.val]}
       /\ IF outcome = "ok"
            THEN /\ store' = Put(path, to_json(message.val))
                 /\ sent' = sent \cup
                        {SentRecord(path, c, recipient, message.val, content)}
            ELSE UNCHANGED <<store, sent>>
       /\ call' = Dropped
       /\ UNCHANGED <<session, secret_key, deleted, hostile, made, op>>

\* no deletion call is in progress and no result is held
IdleOp ==
    [pc |-> "idle", name |-> "none", caller |-> 0, other |-> 0,
     ids |-> << >>, urls |-> << >>, answers |-> << >>, order |-> << >>,
     chunk |-> 0, pos |-> 0, ret |-> "none", failed |-> 0, listed |-> TRUE,
     pauses |-> 0, store0 |-> << >>]

\* a deletion call of client c that has issued no request yet: urls are the
\* URLs it is about to delete, answers[i] the answers of the store to the
\* delete requests for urls[i], order the indices in the order the requests
\* completed, listed whether its listing was answered; pauses is history:
\* the pauses between batches that have elapsed; store0 is history: the
\* store when the call began
BeginOp(name, c, other, ids, urls) ==
    [pc |-> "join", name |-> name, caller |-> c, other |-> other,
     ids |-> ids, urls |-> urls, answers |-> [i \in DOMAIN urls |-> << >>],
     order |-> << >>, chunk |-> 1, pos |-> 1, ret |-> "none", failed |-> 0,
     listed |-> TRUE, pauses |-> 0, store0 |-> store]

\* the record of a call that returned, when the run traces the deletions
Trace(record) == IF op.pc = "off" THEN op ELSE record

\* a deletion call that returned the error of generate_conversation_path(..)?
\* before its first request
FailedOp(name, c, other) ==
    [BeginOp(name, c, other, << >>, << >>)
        EXCEPT !.pc = "done", !.ret = "err", !.listed = FALSE]

\* the answers of the store to a delete request: "ok" a success status,
\* "429" too many requests, "status" another non-success status, "error"
\* the request fails
DeleteAnswers == {"ok", "429", "status", "error"}

\* the store after the delete requests for the URLs of S were answered "ok"
\* mutant: every object of the namespaces of the URLs in S is removed
RemoveAll_namespace(S) ==
    [u \in {v \in DOMAIN store :
                \A w \in S : v.owner # w.owner \/ v.path # w.path} |-> store[u]]

RemoveAll(S) == [u \in DOMAIN store \ S |-> store[u]]

\* delete_message(message_id, other_pubky) of client c; outcome is the answer
\* of the store to the one delete request
delete_message(c, message_id, other, outcome) ==
    LET private_path ==
            generate_conversation_path(keypair_of(c), public_key(other))
        url == Url(public_key(c), private_path.val, message_id)
    IN IF ~private_path.ok
           THEN /\ op' = Trace(FailedOp("delete_message", c, other))
                /\ call' = Dropped
                /\ UNCHANGED <<session, secret_key, store, next_id, sent,
                               deleted, signed, hostile, made>>
       ELSE
       /\ IF outcome = "ok" /\ url \in DOMAIN store
            THEN /\ store' = Remove(url)
                 /\ deleted' = deleted \cup {url}
            ELSE UNCHANGED <<store, deleted>>
       /\ call' = Dropped
       /\ op' = Trace([BeginOp("delete_message", c, other, <<message_id>>, <<url>>)
                         EXCEPT !.pc = "done", !.answers = <<<<outcome>>>>,
                                !.order = <<1>>,
                                !.ret = IF outcome = "ok" THEN "ok" ELSE "err",
                                !.failed = IF outcome = "ok" THEN 0 ELSE 1])
       /\ UNCHANGED <<session, secret_key, next_id, sent, signed, hostile, made>>

\* format!("pubky://{}{}", self.keypair.public_key(), private_path)
SelfPath(c, other, private_path) == Prefix(public_key(c), private_path)

\* mutant: the peer's listing is made under the caller's own key
OtherPath_self(c, other, private_path) == Prefix(public_key(c), private_path)

\* format!("pubky://{}{}", other_pubky, private_path)
OtherPath(c, other, private_path) == Prefix(public_key(other), private_path)

\* the prefixes get_messages(other) of client c lists
SelfPrefix(c, other) ==
    SelfPath(c, other,
             generate_conversation_path(keypair_of(c), public_key(other)).val)
OtherPrefix(c, other) ==
    OtherPath(c, other,
              generate_conversation_path(keypair_of(c), public_key(other)).val)

\* mutant: only the first URL of the listing of the own namespace is taken
ListSelf_first(c, other, self_urls) ==
    [pc |-> "list_other", caller |-> c, other |-> other,
     urls |-> IF self_urls.ok /\ self_urls.val # << >>
                  THEN <<self_urls.val[1]>> ELSE << >>,
     got |-> << >>, all_messages |-> << >>, ret |-> "none",
     faulty |-> ~self_urls.ok,
     listed |-> <<self_urls.ok>>,
     live0 |-> {s \in Between(sent, c, other) : s.url \notin deleted},
     dead0 |-> deleted]

\* get_messages(other_pubky) of client c, up to the answer to the listing of
\* the caller's own namespace.  live0 and dead0 are history: the messages of
\* the conversation sent and not deleted, and the URLs deleted, at the call;
\* listed is history: which of the listings were answered
ListSelf(c, other, self_urls) ==
    [pc |-> "list_other", caller |-> c, other |-> other,
     urls |-> IF self_urls.ok THEN self_urls.val ELSE << >>,
     got |-> << >>, all_messages |-> << >>, ret |-> "none",
     faulty |-> ~self_urls.ok,
     listed |-> <<self_urls.ok>>,
     live0 |-> {s \in Between(sent, c, other) : s.url \notin deleted},
     dead0 |-> deleted]

\* the end of get_messages: sort and return Ok
Return(callrec) ==
    [callrec EXCEPT !.pc = "done", !.ret = "ok",
                    !.all_messages = SortByTimestamp(@)]

\* mutant: a failed listing of the peer's namespace ends the call with Err
ListOther_fatal(callrec, other_urls) ==
    LET listed == [callrec EXCEPT
                     !.urls = IF other_urls.ok THEN @ \o other_urls.val ELSE @,
                     !.faulty = @ \/ ~other_urls.ok,
                     !.listed = Append(@, other_urls.ok)]
    IN IF ~other_urls.ok THEN [listed EXCEPT !.pc = "done", !.ret = "err"]
       ELSE IF listed.urls = << >> THEN Return(listed)
       ELSE [listed EXCEPT !.pc = "fetch"]

\* get_messages, from the answer to the first listing to the answer to the
\* listing of the peer's namespace
ListOther(callrec, other_urls) ==
    LET listed == [callrec EXCEPT
                     !.urls = IF other_urls.ok THEN @ \o other_urls.val ELSE @,
                     !.faulty = @ \/ ~other_urls.ok,
                     !.listed = Append(@, other_urls.ok)]
    IN IF listed.urls = << >> THEN Return(listed)
       ELSE [listed EXCEPT !.pc = "fetch"]

\* mutant: a message equal to one already accumulated is not pushed
Fetched_dedup(callrec, response) ==
    LET processed == IF response.status = "ok"
                         THEN Process(keypair_of(callrec.caller),
                                      public_key(callrec.other), response.text)
                         ELSE << >>
        pushed == IF \E i \in DOMAIN callrec.all_messages :
                         <<callrec.all_messages[i]>> = processed
                      THEN << >> ELSE processed
        fetched == [callrec EXCEPT
                      !.got = Append(@, [status |-> response.status,
                                         text |-> response.text,
                                         pushed |-> pushed]),
                      !.all_messages = @ \o pushed]
    IN IF response.status \in {"error", "body"}
           THEN [fetched EXCEPT !.pc = "done", !.ret = "err", !.faulty = TRUE]
       ELSE IF Len(fetched.got) = Len(fetched.urls)
           THEN [fetched EXCEPT !.pc = "done", !.ret = "ok",
                                !.all_messages = SortByTimestamp(@)]
       ELSE fetched

\* mutant: a non-success status ends the call like a failed request
Fetched_status_fatal(callrec, response) ==
    LET pushed == IF response.status = "ok"
                      THEN Process(keypair_of(callrec.caller),
                                   public_key(callrec.other), response.text)
                      ELSE << >>
        fetched == [callrec EXCEPT
                      !.got = Append(@, [status |-> response.status,
                                         text |-> response.text,
                                         pushed |-> pushed]),
                      !.all_messages = @ \o pushed]
    IN IF response.status # "ok"
           THEN [fetched EXCEPT !.pc = "done", !.ret = "err", !.faulty = TRUE]
       ELSE IF Len(fetched.got) = Len(fetched.urls)
           THEN [fetched EXCEPT !.pc = "done", !.ret = "ok",
                                !.all_messages = SortByTimestamp(@)]
       ELSE fetched

\* get_messages: one turn of the loop over urls, from the answer to the get
\* of the next URL to the next request (or to the return).  got is history:
\* the answer for each URL and what the turn pushed
Fetched(callrec, response) ==
    LET url == callrec.urls[Len(callrec.got) + 1]
        pushed == IF response.status = "ok"
                      THEN Process(keypair_of(callrec.caller),
                                   public_key(callrec.other), response.text)
                      ELSE << >>
        fetched == [callrec EXCEPT
                      !.got = Append(@, [status |-> response.status,
                                         text |-> response.text,
                                         pushed |-> pushed])]
    IN IF response.status \in {"error", "body"}
           \* the ? of send().await? and of text().await?
           THEN [fetched EXCEPT !.pc = "done", !.ret = "err", !.faulty = TRUE]
       ELSE LET processed ==
                    [fetched EXCEPT
                       !.all_messages = @ \o pushed,
                       !.faulty = @ \/ (response.status # "ok"
                                        /\ url \in DOMAIN store)]
            IN IF Len(processed.got) = Len(processed.urls)
                   THEN Return(processed)
                   ELSE processed

RECURSIVE FetchAll(_, _)
FetchAll(callrec, statuses) ==
    IF callrec.pc # "fetch" THEN callrec
    ELSE LET k == Len(callrec.got) + 1
         IN FetchAll(Fetched(callrec, Response(callrec.urls[k], statuses[k])),
                     statuses)

\* a get_messages call that returned the error of
\* generate_conversation_path(..)? before its first request
FailedCall(c, other) ==
    [IdleCall EXCEPT !.pc = "done", !.caller = c, !.other = other,
                     !.ret = "err"]

\* get_messages(other_pubky) of client c as one step: the store answers the
\* two listings with self_urls and other_urls and the get of the k-th URL
\* with statuses[k]
get_messages(c, other, self_urls, other_urls, statuses) ==
    LET private_path ==
            generate_conversation_path(keypair_of(c), public_key(other))
    IN /\ call.pc \in {"idle", "done"}
       /\ private_path.ok =>
              /\ IsListResponse(self_urls, SelfPrefix(c, other))
              /\ IsListResponse(other_urls, OtherPrefix(c, other))
       /\ call' = IF ~private_path.ok THEN FailedCall(c, other)
                  ELSE FetchAll(ListOther(ListSelf(c, other, self_urls),
                                          other_urls),
                                statuses)
       /\ UNCHANGED <<session, secret_key, store, next_id, sent, deleted,
                      signed, hostile, made, op>>

\* the same call step by step, one step for each answer of the store, so
\* that other operations run between its requests
get_messages_list_self(c, other, self_urls) ==
    LET private_path ==
            generate_conversation_path(keypair_of(c), public_key(other))
    IN /\ call.pc \in {"idle", "done"}
       /\ private_path.ok => IsListResponse(self_urls, SelfPrefix(c, other))
       /\ call' = IF ~private_path.ok THEN FailedCall(c, other)
                  ELSE ListSelf(c, other, self_urls)
       /\ UNCHANGED <<session, secret_key, store, next_id, sent, deleted,
                      signed, hostile, made, op>>

get_messages_list_other(other_urls) ==
    /\ call.pc = "list_other"
    /\ IsListResponse(other_urls, OtherPrefix(call.caller, call.other))
    /\ call' = ListOther(call, other_urls)
    /\ UNCHANGED <<session, secret_key, store, next_id, sent, deleted, signed, hostile, made, op>>

\* mutant: an object that gives no message is deleted by the reader
get_messages_fetch_purge(response) ==
    /\ call.pc = "fetch"
    /\ response \in GetResponses(call.urls[Len(call.got) + 1])
    /\ call' = Fetched(call, response)
    /\ LET url == call.urls[Len(call.got) + 1]
           purged == url \in DOMAIN store
                         /\ Len(call'.all_messages) = Len(call.all_messages)
       IN /\ store' = IF purged THEN Remove(url) ELSE store
          /\ deleted' = IF purged THEN deleted \cup {url} ELSE deleted
    /\ UNCHANGED <<session, secret_key, next_id, sent, signed, hostile, made, op>>

get_messages_fetch(response) ==
    /\ call.pc = "fetch"
    /\ response \in GetResponses(call.urls[Len(call.got) + 1])
    /\ call' = Fetched(call, response)
    /\ UNCHANGED <<session, secret_key, store, next_id, sent, deleted, signed, hostile, made, op>>

\* something else than send_message stores body in the namespace of owner,
\* under the path of its conversation with other; one such object in a run
hostile_put(owner, other, body) ==
    LET private_path ==
            generate_conversation_path(keypair_of(owner), public_key(other))
        url == Url(public_key(owner), private_path.val, next_id + 1)
    IN /\ next_id < MaxIds
       /\ hostile = {}
       /\ private_path.ok
       /\ next_id' = next_id + 1
       /\ store' = Put(url, body)
       /\ hostile' = hostile \cup {url}
       /\ call' = Dropped
       /\ UNCHANGED <<session, secret_key, sent, deleted, signed, made, op>>

\* the key under which owner and other encrypt
ChannelKey(owner, other) ==
    EncryptionKey(generate_shared_secret(keypair_of(owner), public_key(other)).val)

\* corrupt objects: no envelope at all, or an envelope of owner with one
\* field damaged
CorruptBodies(owner, other) ==
    {Unparsable} \cup
    UNION {LET m == new(keypair_of(owner), public_key(other), Content(1), now).val
           IN {to_json([m EXCEPT !.encrypted_content = BadCipher]),
               to_json([m EXCEPT !.encrypted_sender = BadCipher]),
               to_json([m EXCEPT !.encrypted_content =
                            encrypt(NonUtf8, ChannelKey(owner, other))]),
               to_json([m EXCEPT !.signature_bytes = GarbageSig])}
           : now \in Times}

Outcomes == {"ok", "status", "error"}

\* the operations of the two clients on their conversation, get_messages
\* taken step by step, and a corrupt object
Next ==
    \/ \E c \in Client : \E recipient \in Client \ {c} :
           \E content \in Contents, now \in Times, outcome \in Outcomes :
               /\ next_id < MaxIds
               /\ send_message(c, recipient, content, now, outcome)
    \/ \E c \in Client : \E other \in Client \ {c} :
           \E message_id \in 1..next_id, outcome \in Outcomes :
               delete_message(c, message_id, other, outcome)
    \/ \E c \in Client : \E other \in Client \ {c} :
           \E self_urls \in ListResponses(SelfPrefix(c, other)) :
               get_messages_list_self(c, other, self_urls)
    \/ /\ call.pc = "list_other"
       /\ \E other_urls \in ListResponses(OtherPrefix(call.caller, call.other)) :
              get_messages_list_other(other_urls)
    \/ /\ call.pc = "fetch"
       /\ \E response \in GetResponses(call.urls[Len(call.got) + 1]) :
              get_messages_fetch(response)
    \/ \E owner \in Client : \E other \in Client \ {owner} :
           \E body \in CorruptBodies(owner, other) :
               hostile_put(owner, other, body)

Spec == Init /\ [][Next]_vars

----------------------------------------------------------------------------
(* The counterparty as the adversary.  Party 2 holds the key it shares     *)
(* with party 1 and its own signing key, and it reads the store: it knows  *)
(* every ciphertext and signature of an envelope party 1 made.  It stores  *)
(* one envelope of its choice in its own namespace of the conversation.    *)

Adversary == 2

ObservedMessages == {r.message : r \in signed}

SenderCiphers(X, other) ==
    {encrypt(as_bytes(to_string(public_key(p))), ChannelKey(X, other)) :
        p \in Client}
    \cup {encrypt(as_bytes(BadKeyString), ChannelKey(X, other)), BadCipher}
    \cup {m.encrypted_sender : m \in ObservedMessages}

ContentCiphers(X, other) ==
    {encrypt(as_bytes(content), ChannelKey(X, other)) : content \in Contents}
    \cup {BadCipher}
    \cup {m.encrypted_content : m \in ObservedMessages}

Signatures(X) ==
    {Sign(keypair_of(X), Digest(as_bytes(content), public_key(p), t)) :
        content \in Contents, p \in Client, t \in Times}
    \cup {GarbageSig}
    \cup {m.signature_bytes : m \in ObservedMessages}
    \cup {ShortSig(m.signature_bytes) : m \in ObservedMessages}

ForgedBodies(X, other) ==
    {to_json([timestamp |-> t, encrypted_sender |-> es,
              encrypted_content |-> ec, signature_bytes |-> sg]) :
        t \in Times, es \in SenderCiphers(X, other),
        ec \in ContentCiphers(X, other), sg \in Signatures(X)}

\* the answers of a store that serves every object
AllOk(c, other) ==
    [k \in 1..Cardinality(Listed(SelfPrefix(c, other))
                          \cup Listed(OtherPrefix(c, other))) |-> "ok"]

NextAdv ==
    \/ \E c \in Client \ {Adversary} : \E recipient \in Party \ {c} :
           \E content \in Contents, now \in Times :
               /\ next_id < MaxIds
               /\ send_message(c, recipient, content, now, "ok")
    \/ \E other \in Client \ {Adversary} :
           \E body \in ForgedBodies(Adversary, other) :
               hostile_put(Adversary, other, body)
    \/ \E c \in Client : \E other \in Client \ {c} :
           \E self_urls \in ListResponses(SelfPrefix(c, other)) \ {Err},
              other_urls \in ListResponses(OtherPrefix(c, other)) \ {Err} :
               get_messages(c, other, self_urls, other_urls, AllOk(c, other))

SpecAdv == Init /\ [][NextAdv]_vars

----------------------------------------------------------------------------
(* Replay.  Either participant, or anyone who can write there, stores a    *)
(* byte-identical copy of a stored envelope under a new object id          *)

\* the bodies stored in the two namespaces of the conversation of c and other
StoredBodies(c, other) ==
    {store[u] : u \in Listed(SelfPrefix(c, other))
                         \cup Listed(OtherPrefix(c, other))}

NextReplay ==
    \/ \E c \in Client : \E recipient \in Client \ {c} :
           \E content \in Contents, now \in Times :
               /\ next_id < MaxIds
               /\ send_message(c, recipient, content, now, "ok")
    \/ \E owner \in Client : \E other \in Client \ {owner} :
           \E body \in StoredBodies(owner, other) :
               hostile_put(owner, other, body)
    \/ \E c \in Client : \E other \in Client \ {c} :
           \E self_urls \in ListResponses(SelfPrefix(c, other)) \ {Err},
              other_urls \in ListResponses(OtherPrefix(c, other)) \ {Err} :
               get_messages(c, other, self_urls, other_urls, AllOk(c, other))

SpecReplay == Init /\ [][NextReplay]_vars

----------------------------------------------------------------------------
(* Relay.  Party 3 writes to party 2.  Party 2 opens the envelope with the *)
(* key it shares with party 3 and stores, in its own namespace of its      *)
(* conversation with party 1, an envelope with the same timestamp and      *)
(* signature whose sender and content are encrypted under the key it       *)
(* shares with party 1                                                     *)

Third == 3

\* the envelope of body, sent by Z to Y, as Y re-encrypts it for X
Relayed(Y, Z, X, body) ==
    LET message == from_json(body).val
        content == decrypt_content(message, keypair_of(Y), public_key(Z))
        sender == decrypt_sender(message, keypair_of(Y), public_key(Z))
        encryption_key == ChannelKey(Y, X)
    IN to_json([timestamp |-> message.timestamp,
                encrypted_sender |->
                    encrypt(as_bytes(sender.val), encryption_key),
                encrypted_content |->
                    encrypt(as_bytes(content.val), encryption_key),
                signature_bytes |-> message.signature_bytes])

NextRelay ==
    \/ \E c \in Party : \E recipient \in Client \ {c} :
           \E content \in Contents, now \in Times :
               /\ next_id < MaxIds
               /\ send_message(c, recipient, content, now, "ok")
    \/ \E other \in Client \ {Adversary} :
           \E u \in Listed(SelfPrefix(Third, Adversary)) :
               hostile_put(Adversary, other,
                           Relayed(Adversary, Third, other, store[u]))
    \/ \E c \in Client : \E other \in Client \ {c} :
           \E self_urls \in ListResponses(SelfPrefix(c, other)) \ {Err},
              other_urls \in ListResponses(OtherPrefix(c, other)) \ {Err} :
               get_messages(c, other, self_urls, other_urls, AllOk(c, other))

SpecRelay == Init /\ [][NextRelay]_vars

----------------------------------------------------------------------------
(* client.rs: delete_messages and clear_messages.  A call is taken step by *)
(* step, one step for each await of the code; the deletions of one         *)
(* join_all are requests in flight together.                               *)

\* const BATCH_SIZE: usize = 5
BATCH_SIZE == 5

\* mutant: the URL is built under the key of the other party
IdUrl_peer(c, other, msg_id) ==
    Url(public_key(other),
        generate_conversation_path(keypair_of(c), public_key(other)).val,
        msg_id)

\* the URL delete_messages builds for a message id
IdUrl(c, other, msg_id) ==
    Url(public_key(c),
        generate_conversation_path(keypair_of(c), public_key(other)).val,
        msg_id)

\* the indices whose request was answered with a failure or a non-success
\* status
Failures(answers) ==
    {i \in DOMAIN answers : answers[i] # << >> /\ answers[i][1] # "ok"}

\* mutant: the last failure in the order of the ids is the one reported
FirstFailure_last(answers) ==
    IF Failures(answers) = {} THEN 0
    ELSE CHOOSE i \in Failures(answers) : \A j \in Failures(answers) : i >= j

\* the first index the loop over results finds failed: 0 if there is none
FirstFailure(answers) ==
    IF Failures(answers) = {} THEN 0
    ELSE CHOOSE i \in Failures(answers) : \A j \in Failures(answers) : i <= j

\* delete_messages(message_ids, other_pubky) of client c, up to join_all:
\* every delete request is issued.  With no id there is nothing to await
delete_messages_send(c, message_ids, other) ==
    LET private_path ==
            generate_conversation_path(keypair_of(c), public_key(other))
        urls == [i \in DOMAIN message_ids |-> IdUrl(c, other, message_ids[i])]
        begun == BeginOp("delete_messages", c, other, message_ids, urls)
    IN /\ op.pc \in {"idle", "done"}
       /\ op' = IF ~private_path.ok
                    THEN FailedOp("delete_messages", c, other)
                ELSE IF message_ids = << >>
                  THEN [begun EXCEPT !.pc = "done", !.ret = "ok"]
                  ELSE begun
       /\ call' = Dropped
       /\ UNCHANGED <<session, secret_key, store, next_id, sent, deleted, signed,
                      hostile, made>>

\* mutant: the call returns at the first request that is not answered with
\* success, the requests still in flight are dropped
delete_messages_delete_failfast(i, answer) ==
    /\ op.pc = "join" /\ op.name = "delete_messages"
    /\ i \in DOMAIN op.urls /\ op.answers[i] = << >>
    /\ LET url == op.urls[i]
           answered == [op EXCEPT !.answers[i] = <<answer>>,
                                  !.order = Append(@, i)]
       IN /\ IF answer = "ok" /\ url \in DOMAIN store
               THEN /\ store' = Remove(url)
                    /\ deleted' = deleted \cup {url}
               ELSE UNCHANGED <<store, deleted>>
          /\ op' = IF answer # "ok"
                     THEN [answered EXCEPT !.pc = "done", !.failed = i,
                                           !.ret = "err"]
                   ELSE IF Len(answered.order) < Len(answered.urls)
                     THEN answered
                   ELSE [answered EXCEPT !.pc = "done", !.ret = "ok"]
    /\ UNCHANGED <<secret_key, next_id, call, sent, signed, hostile, made,
                   session>>

\* delete_messages: the store answers the request for message_ids[i], in
\* whatever order the requests complete; when the last one is answered the
\* loop over results returns the first failure in the order of message_ids
delete_messages_delete(i, answer) ==
    /\ op.pc = "join" /\ op.name = "delete_messages"
    /\ i \in DOMAIN op.urls /\ op.answers[i] = << >>
    /\ LET url == op.urls[i]
           answered == [op EXCEPT !.answers[i] = <<answer>>,
                                  !.order = Append(@, i)]
           failed == FirstFailure(answered.answers)
       IN /\ IF answer = "ok" /\ url \in DOMAIN store
               THEN /\ store' = Remove(url)
                    /\ deleted' = deleted \cup {url}
               ELSE UNCHANGED <<store, deleted>>
          /\ op' = IF Len(answered.order) < Len(answered.urls) THEN answered
                   ELSE [answered EXCEPT
                           !.pc = "done", !.failed = failed,
                           !.ret = IF failed = 0 THEN "ok" ELSE "err"]
    /\ UNCHANGED <<session, secret_key, next_id, call, sent, signed, hostile, made>>

\* the last index of the chunk that begins at index first
ChunkEnd(urls, first) ==
    IF first + BATCH_SIZE - 1 < Len(urls) THEN first + BATCH_SIZE - 1
    ELSE Len(urls)

\* mutant: the deletions of all remaining URLs are issued at once
Chunk_rest(record) == record.chunk..Len(record.urls)

\* the indices of the chunk the call is at
Chunk(record) == record.chunk..ChunkEnd(record.urls, record.chunk)

\* mutant: the call returns Ok after the first chunk
RECURSIVE Check_first_chunk(_)
Check_first_chunk(record) ==
    IF record.pos > ChunkEnd(record.urls, record.chunk)
        THEN [record EXCEPT !.pc = "done", !.ret = "ok"]
    ELSE LET result == record.answers[record.pos][1]
         IN IF result = "ok"
                THEN Check_first_chunk([record EXCEPT !.pos = @ + 1])
            ELSE IF result = "429" THEN [record EXCEPT !.pc = "retry"]
            ELSE [record EXCEPT !.pc = "done", !.ret = "err",
                                !.failed = record.pos]

\* clear_messages: the end of the turn of the loop over the chunks: the
\* deletions of the next chunk are issued, or the call returns Ok
NextChunk(record) ==
    IF record.pos > Len(record.urls)
        THEN [record EXCEPT !.pc = "done", !.ret = "ok"]
        ELSE [record EXCEPT !.pc = "join", !.chunk = record.pos]

\* mutant: the next chunk follows without the pause
RECURSIVE Check_no_pause(_)
Check_no_pause(record) ==
    IF record.pos > ChunkEnd(record.urls, record.chunk)
        THEN NextChunk(record)
    ELSE LET result == record.answers[record.pos][1]
         IN IF result = "ok" THEN Check_no_pause([record EXCEPT !.pos = @ + 1])
            ELSE IF result = "429" THEN [record EXCEPT !.pc = "retry"]
            ELSE [record EXCEPT !.pc = "done", !.ret = "err",
                                !.failed = record.pos]

\* clear_messages: the loop over the results of a chunk from record.pos on,
\* up to the next await: the retry of a delete answered with 429, the pause
\* after a chunk of BATCH_SIZE, the deletions of the next chunk, or the
\* return
RECURSIVE Check(_)
Check(record) ==
    IF record.pos > ChunkEnd(record.urls, record.chunk)
        THEN IF ChunkEnd(record.urls, record.chunk) - record.chunk + 1
                    = BATCH_SIZE
                 \* if chunk.len() == BATCH_SIZE { sleep(200 ms) }
                 THEN [record EXCEPT !.pc = "sleep"]
                 ELSE NextChunk(record)
    ELSE LET result == record.answers[record.pos][1]
         IN IF result = "ok" THEN Check([record EXCEPT !.pos = @ + 1])
            ELSE IF result = "429" THEN [record EXCEPT !.pc = "retry"]
            ELSE [record EXCEPT !.pc = "done", !.ret = "err",
                                !.failed = record.pos]

\* mutant: an empty listing is an error
clear_messages_list_nonempty(c, other, listing) ==
    LET private_path ==
            generate_conversation_path(keypair_of(c), public_key(other))
        urls == IF listing.ok THEN listing.val ELSE << >>
        begun == BeginOp("clear_messages", c, other, << >>, urls)
    IN /\ op.pc \in {"idle", "done"}
       /\ private_path.ok
       /\ IsListResponse(listing, SelfPrefix(c, other))
       /\ op' = IF urls = << >>
                  THEN [begun EXCEPT !.pc = "done", !.listed = listing.ok,
                                     !.ret = IF listing.ok THEN "err" ELSE "ok"]
                  ELSE begun
       /\ call' = Dropped
       /\ UNCHANGED <<session, secret_key, store, next_id, sent, deleted, signed,
                      hostile, made>>

\* clear_messages(other_pubky) of client c, up to the answer to the listing
\* of its own namespace: a failed or an empty listing returns Ok
clear_messages_list(c, other, listing) ==
    LET private_path ==
            generate_conversation_path(keypair_of(c), public_key(other))
        urls == IF listing.ok THEN listing.val ELSE << >>
        begun == BeginOp("clear_messages", c, other, << >>, urls)
    IN /\ op.pc \in {"idle", "done"}
       /\ private_path.ok => IsListResponse(listing, SelfPrefix(c, other))
       /\ op' = IF ~private_path.ok
                    THEN FailedOp("clear_messages", c, other)
                ELSE IF urls = << >>
                  THEN [begun EXCEPT !.pc = "done", !.ret = "ok",
                                     !.listed = listing.ok]
                  ELSE begun
       /\ call' = Dropped
       /\ UNCHANGED <<session, secret_key, store, next_id, sent, deleted, signed,
                      hostile, made>>

\* clear_messages: join_all of the deletions of the chunk; results[i] is the
\* answer of the store to the request for urls[i]
clear_messages_join(results) ==
    /\ op.pc = "join" /\ op.name = "clear_messages"
    /\ DOMAIN results = Chunk(op)
    /\ LET gone == {op.urls[i] : i \in {j \in Chunk(op) : results[j] = "ok"}}
           joined == [op EXCEPT
                        !.answers = [i \in DOMAIN op.urls |->
                                        IF i \in Chunk(op) THEN <<results[i]>>
                                        ELSE op.answers[i]]]
       IN /\ store' = RemoveAll(gone)
          /\ deleted' = deleted \cup (gone \cap DOMAIN store)
          /\ op' = Check(joined)
    /\ UNCHANGED <<session, secret_key, next_id, call, sent, signed, hostile, made>>

\* mutant: a retry that is not answered with success is retried again
clear_messages_retry_again(answer) ==
    /\ op.pc = "retry" /\ op.name = "clear_messages"
    /\ LET url == op.urls[op.pos]
           retried == [op EXCEPT !.answers[op.pos] = Append(@, answer)]
       IN /\ IF answer = "ok" /\ url \in DOMAIN store
               THEN /\ store' = Remove(url)
                    /\ deleted' = deleted \cup {url}
               ELSE UNCHANGED <<store, deleted>>
          /\ op' = IF answer = "ok"
                     THEN Check([retried EXCEPT !.pos = @ + 1])
                     ELSE retried
    /\ UNCHANGED <<session, secret_key, next_id, call, sent, signed, hostile, made>>

\* mutant: a retry answered with 429 is retried again
clear_messages_retry_429(answer) ==
    /\ op.pc = "retry" /\ op.name = "clear_messages"
    /\ LET url == op.urls[op.pos]
           retried == [op EXCEPT !.answers[op.pos] = Append(@, answer)]
       IN /\ IF answer = "ok" /\ url \in DOMAIN store
               THEN /\ store' = Remove(url)
                    /\ deleted' = deleted \cup {url}
               ELSE UNCHANGED <<store, deleted>>
          /\ op' = IF answer = "ok"
                     THEN Check([retried EXCEPT !.pos = @ + 1])
                   ELSE IF answer = "429" THEN retried
                   ELSE [retried EXCEPT !.pc = "done", !.ret = "err",
                                        !.failed = op.pos]
    /\ UNCHANGED <<session, secret_key, next_id, call, sent, signed, hostile, made>>

\* clear_messages: the answer to the retry of the delete of urls[pos]
clear_messages_retry(answer) ==
    /\ op.pc = "retry" /\ op.name = "clear_messages"
    /\ LET url == op.urls[op.pos]
           retried == [op EXCEPT !.answers[op.pos] = Append(@, answer)]
       IN /\ IF answer = "ok" /\ url \in DOMAIN store
               THEN /\ store' = Remove(url)
                    /\ deleted' = deleted \cup {url}
               ELSE UNCHANGED <<store, deleted>>
          /\ op' = IF answer = "ok"
                     THEN Check([retried EXCEPT !.pos = @ + 1])
                     ELSE [retried EXCEPT !.pc = "done", !.ret = "err",
                                          !.failed = op.pos]
    /\ UNCHANGED <<session, secret_key, next_id, call, sent, signed, hostile, made>>

\* clear_messages: the pause after a chunk of BATCH_SIZE has elapsed
clear_messages_sleep ==
    /\ op.pc = "sleep" /\ op.name = "clear_messages"
    /\ op' = NextChunk([op EXCEPT !.pauses = @ + 1])
    /\ UNCHANGED <<secret_key, store, next_id, call, sent, deleted, signed,
                   hostile, made, session>>

\* the URLs stored under prefix by ascending object id
Ascending(prefix) ==
    LET F[k \in 0..next_id] ==
            IF k = 0 THEN << >>
            ELSE LET url == [owner |-> prefix.owner, path |-> prefix.path,
                             file |-> k]
                 IN IF url \in DOMAIN store THEN Append(F[k - 1], url)
                    ELSE F[k - 1]
    IN F[next_id]

Reverse(seq) == [i \in DOMAIN seq |-> seq[Len(seq) + 1 - i]]

\* the answers to a listing in the runs of the deletion calls: a failure,
\* or the URLs by ascending or by descending object id
Listings(prefix) ==
    {Err, Ok(Ascending(prefix)), Ok(Reverse(Ascending(prefix)))}

\* the message ids a caller passes to delete_message and delete_messages
DeleteIds == 1..(MaxIds + 1)
DeleteLists ==
    UNION {[1..n -> DeleteIds] : n \in 0..MaxIds}

\* the requests of the call that were not answered with success
Faults(record) ==
    {<<i, k>> \in (DOMAIN record.answers) \X (1..2) :
        k <= Len(record.answers[i]) /\ record.answers[i][k] # "ok"}

\* the answers the store gives to one more request of the call
Answers(record) ==
    IF Cardinality(Faults(record)) < MaxFaults THEN DeleteAnswers ELSE {"ok"}

\* the answers the store gives to the requests of a chunk
ChunkResults(record) ==
    {r \in [Chunk(record) -> DeleteAnswers] :
        Cardinality({i \in Chunk(record) : r[i] # "ok"})
            + Cardinality(Faults(record)) <= MaxFaults}

\* the state after construction, in the runs that trace the deletion calls
InitDel ==
    /\ secret_key = KeySeed
    /\ InitSystem
    /\ op = IdleOp

\* both clients send, then one deletion call runs to its end; get_messages
\* reads the conversation before it, and its caller reads it after it
NextDel ==
    \/ \E c \in Client : \E recipient \in Client \ {c} :
           /\ op.pc = "idle"
           /\ next_id < MaxObjects
           /\ c = 1 \/ Cardinality({s \in sent : s.from = c}) < MaxReplies
           /\ send_message(c, recipient, Content(1), 1, "ok")
    \/ \E c \in Client : \E other \in Client \ {c} :
           \E message_id \in DeleteIds, outcome \in DeleteAnswers :
               /\ op.pc = "idle"
               /\ delete_message(c, message_id, other, outcome)
    \/ \E c \in Client : \E other \in Client \ {c} :
           \E message_ids \in DeleteLists :
               /\ op.pc = "idle"
               /\ delete_messages_send(c, message_ids, other)
    \/ /\ op.pc = "join" /\ op.name = "delete_messages"
       /\ \E i \in DOMAIN op.urls, answer \in Answers(op) :
              delete_messages_delete(i, answer)
    \/ \E c \in Client : \E other \in Client \ {c} :
           \E listing \in Listings(SelfPrefix(c, other)) :
               /\ op.pc = "idle"
               /\ clear_messages_list(c, other, listing)
    \/ /\ op.pc = "join" /\ op.name = "clear_messages"
       /\ \E results \in ChunkResults(op) : clear_messages_join(results)
    \/ /\ op.pc = "retry"
       /\ \E answer \in Answers(op) : clear_messages_retry(answer)
    \/ clear_messages_sleep
    \/ \E c \in Client : \E other \in Client \ {c} :
           \E self_urls \in {Err, Ok(Ascending(SelfPrefix(c, other)))},
              other_urls \in {Err, Ok(Ascending(OtherPrefix(c, other)))} :
               /\ call.pc = "idle"
               /\ op.pc = "idle" \/ (op.pc = "done" /\ c = op.caller)
               /\ get_messages(c, other, self_urls, other_urls, AllOk(c, other))

SpecDel == InitDel /\ [][NextDel]_vars

----------------------------------------------------------------------------
(* clear_messages with send_message of its caller between its requests: a  *)
(* client is used through &self, so a task or another client of the same   *)
(* keypair stores a message while the call awaits the store                *)

Clearer == 1

NextSnap ==
    \/ \E recipient \in Client \ {Clearer} :
           /\ next_id < MaxObjects
           /\ send_message(Clearer, recipient, Content(1), 1, "ok")
    \/ \E other \in Client \ {Clearer} :
           \E listing \in Listings(SelfPrefix(Clearer, other)) :
               /\ op.pc = "idle"
               /\ clear_messages_list(Clearer, other, listing)
    \/ /\ op.pc = "join" /\ op.name = "clear_messages"
       /\ \E results \in ChunkResults(op) : clear_messages_join(results)
    \/ /\ op.pc = "retry"
       /\ \E answer \in Answers(op) : clear_messages_retry(answer)
    \/ clear_messages_sleep
    \/ \E other \in Client \ {Clearer} :
           /\ op.pc = "done"
           /\ get_messages(Clearer, other,
                           Ok(Ascending(SelfPrefix(Clearer, other))),
                           Ok(Ascending(OtherPrefix(Clearer, other))),
                           AllOk(Clearer, other))

SpecSnap == InitDel /\ [][NextSnap]_vars

----------------------------------------------------------------------------
(* clear_messages against a store that answers every delete as it likes,   *)
(* and answers every request                                               *)

\* the answers of the store to the requests of a chunk, with no bound on
\* the failures
AnyChunkResults(record) == [Chunk(record) -> DeleteAnswers]

\* a request of the call is answered, or its pause elapses
ClearProgress ==
    \/ \E results \in AnyChunkResults(op) : clear_messages_join(results)
    \/ \E answer \in DeleteAnswers : clear_messages_retry(answer)
    \/ clear_messages_sleep

NextClear ==
    \/ \E recipient \in Client \ {Clearer} :
           /\ op.pc = "idle"
           /\ next_id < MaxObjects
           /\ send_message(Clearer, recipient, Content(1), 1, "ok")
    \/ \E other \in Client \ {Clearer} :
           \E listing \in Listings(SelfPrefix(Clearer, other)) :
               /\ op.pc = "idle"
               /\ clear_messages_list(Clearer, other, listing)
    \/ \E results \in AnyChunkResults(op) : clear_messages_join(results)
    \/ \E answer \in DeleteAnswers : clear_messages_retry(answer)
    \/ clear_messages_sleep

\* send().await and sleep().await return: the store answers every request
\* and the timer fires
SpecClear == InitDel /\ [][NextClear]_vars /\ WF_vars(ClearProgress)

----------------------------------------------------------------------------
(* client.rs: from_recovery_phrase.  A phrase is described by what         *)
(* Mnemonic::parse_in looks at: the number of its words, the word list its *)
(* words are from ("none" when a word is in no list), whether it is        *)
(* written in upper case, whether its checksum holds, and the entropy its  *)
(* words encode                                                            *)

\* entropies a recovery phrase encodes, 1..MaxEntropy
MaxEntropy == 2

\* Option<T>
None == [some |-> FALSE]
Some(v) == [some |-> TRUE, val |-> v]
unwrap_or(option, default) == IF option.some THEN option.val ELSE default

\* bip39::Language: the default and one more
Languages == {"English", "Japanese"}

\* the word counts of the phrases tried: none, 3, 11, 12 and 13 words
WordCounts == {0, 3, 11, 12, 13}

\* the word counts of a BIP39 mnemonic
ValidWordCounts == {12, 15, 18, 21, 24}

Phrases ==
    [count : WordCounts, words : Languages \cup {"none"}, upper : BOOLEAN,
     checksum : BOOLEAN, entropy : 1..MaxEntropy]

Passphrases == {"", "p", "q"}

\* mutant: a phrase in upper case is folded to lower case before the lookup
parse_in_fold_case(lang, phrase) ==
    IF phrase.count \notin ValidWordCounts THEN Err
    ELSE IF phrase.words # lang THEN Err
    ELSE IF ~phrase.checksum THEN Err
    ELSE Ok([language |-> lang, entropy |-> phrase.entropy])

\* Mnemonic::parse_in(lang, phrase): the word count is checked, every word
\* is looked up in the word list of lang (its words are in lower case), and
\* the checksum is checked
parse_in(lang, phrase) ==
    IF phrase.count \notin ValidWordCounts THEN Err
    ELSE IF phrase.upper \/ phrase.words # lang THEN Err
    ELSE IF ~phrase.checksum THEN Err
    ELSE Ok([language |-> lang, entropy |-> phrase.entropy])

\* PBKDF2-HMAC-SHA512 of the words of the mnemonic, salted with the
\* passphrase: an injective numbering of the pairs
Pbkdf2(mnemonic, pass_index) ==
    ((mnemonic.entropy - 1) * 2
        + (IF mnemonic.language = "English" THEN 0 ELSE 1)) * 3
    + pass_index + 1

PassIndex(pass) == IF pass = "" THEN 0 ELSE IF pass = "p" THEN 1 ELSE 2

\* mutant: the seed is derived with the empty passphrase
to_seed_nopass(mnemonic, pass) == Pbkdf2(mnemonic, 0)

\* Mnemonic::to_seed(pass), and the first 32 bytes of the seed
to_seed(mnemonic, pass) == Pbkdf2(mnemonic, PassIndex(pass))

\* PrivateMessengerClient::new(keypair); pubky::Client::builder().build() is
\* taken to succeed
new_client(keypair) == Ok([keypair |-> keypair])

\* PrivateMessengerClient::from_recovery_phrase
from_recovery_phrase(mnemonic_phrase, passphrase, language) ==
    LET lang == unwrap_or(language, "English")
        pass == unwrap_or(passphrase, "")
        mnemonic == parse_in(lang, mnemonic_phrase)
    IN IF ~mnemonic.ok THEN Err
       ELSE LET seed == to_seed(mnemonic.val, pass)
                keypair == Keypair(seed)
            IN new_client(keypair)

\* from_recovery_phrase called as tests/test_recovery_phrase.rs does
CallRecover(mnemonic_phrase, passphrase, language) ==
    /\ made' = [op |-> "recover", phrase |-> mnemonic_phrase,
                passphrase |-> passphrase, language |-> language,
                out |-> from_recovery_phrase(mnemonic_phrase, passphrase,
                                             language)]
    /\ UNCHANGED <<secret_key, store, next_id, call, sent, deleted, signed,
                   hostile, op, session>>

NextRecover ==
    \E mnemonic_phrase \in Phrases,
       passphrase \in {None} \cup {Some(pass) : pass \in Passphrases},
       language \in {None} \cup {Some(lang) : lang \in Languages} :
        CallRecover(mnemonic_phrase, passphrase, language)

SpecRecover == Init /\ [][NextRecover]_vars

----------------------------------------------------------------------------
(* A third party: it reads every URL and every body of the store and holds *)
(* the secret key of neither participant.  Public keys are public.         *)

\* the object send_message of c stores for recipient: its URL under the
\* sender's own key and the JSON of the envelope
Stored(c, recipient, content, now, msg_id) ==
    [url |-> Url(public_key(c),
                 generate_conversation_path(keypair_of(c),
                                            public_key(recipient)).val,
                 msg_id),
     body |-> to_json(new(keypair_of(c), public_key(recipient), content,
                          now).val)]

\* what the third party learns of one stored object.  The URL, the
\* timestamp and signature_bytes are stored in the clear; the two
\* ciphertexts tell it nothing.  With the signature it tests its guesses:
\* guesses is the set of the keys and contents for which PublicKey::verify
\* accepts signature_bytes over blake3(content || key || timestamp)
Observe(url, body) ==
    [url |-> url,
     timestamp |-> IF body.parsable THEN body.msg.timestamp ELSE 0,
     guesses |->
         IF ~body.parsable THEN {}
         ELSE {g \in Party \X Contents :
                  Verify(public_key(g[1]),
                         Digest(as_bytes(g[2]), public_key(g[1]),
                                body.msg.timestamp),
                         body.msg.signature_bytes)}]

----------------------------------------------------------------------------
(* client.rs: sign_in.  The client holds no record of its session and no   *)
(* other method looks for one: a caller may call the methods in any order  *)

\* sign_in of client c: self.client.signin(&self.keypair).await?; outcome is
\* the answer of the homeserver
sign_in(c, outcome) ==
    /\ session' = IF outcome = "ok" THEN session \cup {c} ELSE session
    /\ UNCHANGED <<secret_key, store, next_id, call, sent, deleted, signed,
                   hostile, made, op>>

\* the methods of the two clients, called in any order
NextSession ==
    \/ \E c \in Client, outcome \in {"ok", "error"} : sign_in(c, outcome)
    \/ \E c \in Client : \E recipient \in Client \ {c} :
           \E outcome \in Outcomes :
               /\ next_id < MaxIds
               /\ send_message(c, recipient, Content(1), 1, outcome)
    \/ \E c \in Client : \E other \in Client \ {c} :
           \E message_id \in 1..next_id, outcome \in Outcomes :
               delete_message(c, message_id, other, outcome)
    \/ \E c \in Client : \E other \in Client \ {c} :
           \E self_urls \in {Err, Ok(Ascending(SelfPrefix(c, other)))},
              other_urls \in {Err, Ok(Ascending(OtherPrefix(c, other)))} :
               get_messages(c, other, self_urls, other_urls, AllOk(c, other))

SpecSession == InitDel /\ [][NextSession]_vars

----------------------------------------------------------------------------
(* The methods called with a peer key that is no point of the curve *)

\* the peers a caller names: the other client, or a key that is no point
Peers(c) == (Client \ {c}) \cup {BadPeer}

NextInvalid ==
    \/ \E c \in Client : \E recipient \in Peers(c) :
           /\ next_id < MaxIds
           /\ send_message(c, recipient, Content(1), 1, "ok")
    \/ \E c \in Client :
           get_messages(c, BadPeer, Ok(<< >>), Ok(<< >>), << >>)
    \/ \E c \in Client : \E message_id \in 1..next_id :
           delete_message(c, message_id, BadPeer, "ok")
    \/ \E c \in Client : \E message_ids \in DeleteLists :
           delete_messages_send(c, message_ids, BadPeer)
    \/ \E c \in Client : clear_messages_list(c, BadPeer, Ok(<< >>))

SpecInvalid == InitDel /\ [][NextInvalid]_vars

----------------------------------------------------------------------------
(* Claims about get_messages, checked under Spec *)

Done == call.pc = "done"

Has(messages, m) == \E i \in DOMAIN messages : messages[i] = m

\* what a reader of the conversation of c and other sees of an envelope
\* that send_message of s.from stored
Visible(s) ==
    [sender |-> to_string(public_key(s.from)), content |-> s.content,
     timestamp |-> s.timestamp, verified |-> TRUE]

\* text is an envelope whose content and sender open under the key of the
\* conversation of c and other and are UTF-8
Decryptable(text, c, other) ==
    /\ text.parsable
    /\ text.msg.encrypted_content.key = ChannelKey(c, other)
    /\ text.msg.encrypted_content.plain.utf8
    /\ text.msg.encrypted_sender.key = ChannelKey(c, other)
    /\ text.msg.encrypted_sender.plain.utf8

\* the turns of the loop whose get was answered with the object
Served == {k \in DOMAIN call.got : call.got[k].status = "ok"}

\* C2: a message whose send_message returned Ok before a get_messages call
\* of either party began, and that is not deleted, is returned by that call
\* with its content, the sender's key string and verified = true, provided
\* the store answered every request of the call; a message deleted before
\* the call began is not listed, hence not returned.
C2_Lifecycle ==
    /\ \A k \in DOMAIN call.urls : call.urls[k] \notin call.dead0
    /\ (Done /\ ~call.faulty) =>
           /\ call.ret = "ok"
           /\ \A s \in call.live0 :
                  s.url \notin deleted =>
                      /\ \E k \in DOMAIN call.got :
                             /\ call.urls[k] = s.url
                             /\ call.got[k].pushed = <<Visible(s)>>
                      /\ Has(call.all_messages, Visible(s))

C2_Witness ==
    /\ Done /\ ~call.faulty /\ call.ret = "ok"
    /\ \E s \in call.live0 : s.to = call.caller /\ s.url \notin deleted
    /\ \E u \in call.dead0 : u.path = SelfPrefix(call.caller, call.other).path

\* C3: the sequence get_messages returns is sorted by timestamp ascending.
C3_Sorted ==
    (Done /\ call.ret = "ok") =>
        \A i \in 1..(Len(call.all_messages) - 1) :
            call.all_messages[i].timestamp <= call.all_messages[i + 1].timestamp

C3_Witness ==
    /\ Done /\ call.ret = "ok"
    /\ Len(call.got) >= 2
    /\ call.got[1].pushed # << >> /\ call.got[2].pushed # << >>
    /\ call.got[1].pushed[1].timestamp > call.got[2].pushed[1].timestamp

\* C4: when the store serves every listed object, get_messages returns Ok
\* with exactly one message for each object that parses and decrypts, and
\* none for an object that does not parse or whose content or sender does
\* not decrypt.
C4_CorruptionTolerance ==
    (Done /\ ~call.faulty) =>
        LET valid == {k \in Served :
                         Decryptable(call.got[k].text, call.caller, call.other)}
        IN /\ call.ret = "ok"
           /\ Len(call.all_messages) = Cardinality(valid)
           /\ \A k \in valid : /\ Len(call.got[k].pushed) = 1
                               /\ Has(call.all_messages, call.got[k].pushed[1])
           /\ \A k \in DOMAIN call.got \ valid : call.got[k].pushed = << >>

C4_Witness ==
    /\ Done /\ ~call.faulty /\ call.ret = "ok"
    /\ Served = DOMAIN call.got
    /\ Cardinality({k \in Served :
           ~Decryptable(call.got[k].text, call.caller, call.other)}) = 1
    /\ Len(call.all_messages) = Len(call.got) - 1
    /\ Len(call.all_messages) >= 1

\* C5: when the get of a listed object fails (a transport error, a
\* non-success status or an unreadable body), get_messages still returns Ok.
C5_InaccessibleNonFatal ==
    (Done /\ \E k \in DOMAIN call.got : call.got[k].status # "ok") =>
        call.ret = "ok"

\* C6 as claimed: an object that decrypts but whose signature verification
\* fails is omitted from the returned list.
C6_UnverifiedOmitted ==
    \A k \in Served :
        LET text == call.got[k].text
        IN (/\ Decryptable(text, call.caller, call.other)
            /\ verify_signature(text.msg,
                   text.msg.encrypted_content.plain.text,
                   text.msg.encrypted_sender.plain.text) # Ok(TRUE))
           => call.got[k].pushed = << >>

\* C6 amended: an object that decrypts but whose signature verification
\* fails causes no error and is returned, with verified = false.
C6_UnverifiedReturned ==
    \A k \in Served :
        LET text == call.got[k].text
            unverified ==
                [sender |-> text.msg.encrypted_sender.plain.text,
                 content |-> text.msg.encrypted_content.plain.text,
                 timestamp |-> text.msg.timestamp, verified |-> FALSE]
        IN (/\ Decryptable(text, call.caller, call.other)
            /\ verify_signature(text.msg,
                   text.msg.encrypted_content.plain.text,
                   text.msg.encrypted_sender.plain.text) # Ok(TRUE))
           => /\ call.got[k].pushed = <<unverified>>
              /\ call.pc # "done" \/ call.ret = "err"
                    \/ Has(call.all_messages, unverified)
              /\ (Done /\ ~call.faulty) => call.ret = "ok"

C6_Witness ==
    /\ Done /\ call.ret = "ok"
    /\ \E i \in DOMAIN call.all_messages : ~call.all_messages[i].verified
    /\ \E i \in DOMAIN call.all_messages : call.all_messages[i].verified

----------------------------------------------------------------------------
(* Claims about tampering and forgery, checked under SpecAdv *)

\* m is e with exactly one of encrypted_content, encrypted_sender and
\* signature_bytes altered
OneFieldAltered(m, e) ==
    /\ m.timestamp = e.timestamp
    /\ Cardinality({f \in {"content", "sender", "signature"} :
           \/ f = "content" /\ m.encrypted_content # e.encrypted_content
           \/ f = "sender" /\ m.encrypted_sender # e.encrypted_sender
           \/ f = "signature" /\ m.signature_bytes # e.signature_bytes}) = 1

Tampered(m) == \E e \in ObservedMessages : OneFieldAltered(m, e)

C8_Authenticity ==
    (Done /\ call.ret = "ok") =>
        \A i \in DOMAIN call.all_messages : \A S \in Client \ {Adversary} :
            LET m == call.all_messages[i]
            IN (m.verified /\ m.sender = to_string(public_key(S))) =>
                \E r \in signed : /\ r.signer = S
                                  /\ r.content = m.content
                                  /\ r.message.timestamp = m.timestamp

C8_Witness ==
    /\ Done /\ call.ret = "ok"
    /\ \E k \in Served :
           /\ call.urls[k] \in hostile
           /\ call.got[k].pushed # << >>
           /\ call.got[k].pushed[1].verified
           /\ call.got[k].pushed[1].sender = to_string(public_key(1))
           /\ \A s \in sent : s.to # Adversary

----------------------------------------------------------------------------
(* Claims about send_message, checked under Spec *)

----------------------------------------------------------------------------
(* Claims about the deletion calls, checked under SpecDel *)

OpDone == op.pc = "done"

\* the key string of the caller of the deletion call
OpOwner == to_string(public_key(op.caller))

\* the URLs the deletion call names or lists
OpUrls == {op.urls[i] : i \in DOMAIN op.urls}

\* the path of the conversation of c and other
ConversationPath(c, other) ==
    generate_conversation_path(keypair_of(c), public_key(other)).val

\* the call read both listings and returned
ReadAll == Done /\ call.ret = "ok" /\ call.listed = <<TRUE, TRUE>>

\* C12: every put of send_message and every delete of delete_message,
\* delete_messages and clear_messages is addressed to the caller's own key,
\* under /pub/private_messages/{digest}/ and an object id; no object of the
\* other party is deleted.
C12_OwnNamespace ==
    /\ \A s \in sent :
           /\ s.url.owner = to_string(public_key(s.from))
           /\ s.url.path = ConversationPath(s.from, s.to)
           /\ s.url.path[1] = "/pub/private_messages/"
           /\ s.url.file \in 1..next_id
    /\ op.pc # "idle" =>
           /\ \A u \in OpUrls : /\ u.owner = OpOwner
                                /\ u.path = ConversationPath(op.caller, op.other)
           /\ \A u \in deleted : u.owner = OpOwner
           /\ \A u \in DOMAIN op.store0 :
                  u.owner # OpOwner =>
                      u \in DOMAIN store /\ store[u] = op.store0[u]

C12_Witness ==
    /\ OpDone /\ op.name = "delete_messages" /\ op.ret = "ok"
    /\ deleted # {}
    /\ \E u \in DOMAIN store : u.owner # OpOwner
    /\ \E u \in DOMAIN store : u.owner = OpOwner
    /\ \E i \in DOMAIN op.ids :
           \E s \in sent : s.from # op.caller /\ s.url.file = op.ids[i]

\* C13: after delete_message or delete_messages returned Ok, exactly the
\* caller's objects named by the ids are gone; every other object is stored
\* unchanged and get_messages of the caller returns one message for each,
\* so the count dropped by the number of named objects that existed.
C13_DeleteFrame ==
    (OpDone /\ op.name \in {"delete_message", "delete_messages"}
            /\ op.ret = "ok") =>
        /\ DOMAIN store = DOMAIN op.store0 \ OpUrls
        /\ \A u \in DOMAIN store : store[u] = op.store0[u]
        /\ ReadAll =>
               /\ Len(call.all_messages)
                      = Cardinality(DOMAIN op.store0)
                            - Cardinality(OpUrls \cap DOMAIN op.store0)
               /\ \A u \in DOMAIN op.store0 \ OpUrls :
                      \E k \in DOMAIN call.urls :
                          /\ call.urls[k] = u
                          /\ Len(call.got[k].pushed) = 1
                          /\ call.got[k].text = op.store0[u]
                          /\ Has(call.all_messages, call.got[k].pushed[1])
               /\ \A k \in DOMAIN call.urls : call.urls[k] \notin OpUrls

C13_Witness ==
    /\ OpDone /\ op.name = "delete_messages" /\ op.ret = "ok"
    /\ Len(op.ids) = 2 /\ op.ids[1] # op.ids[2]
    /\ OpUrls \subseteq DOMAIN op.store0
    /\ ReadAll
    /\ \E k \in DOMAIN call.urls : call.urls[k].owner = OpOwner
    /\ \E k \in DOMAIN call.urls : call.urls[k].owner # OpOwner

C15_EmptyNoOp ==
    (/\ OpDone
     /\ \/ op.name = "delete_messages" /\ op.ids = << >>
        \/ /\ op.name = "clear_messages"
           /\ \A u \in DOMAIN op.store0 : u.owner # OpOwner) =>
        /\ op.ret = "ok"
        /\ \A i \in DOMAIN op.answers : op.answers[i] = << >>
        /\ op.urls = << >>
        /\ store = op.store0

C15_Witness ==
    /\ OpDone /\ op.name = "delete_messages" /\ op.ids = << >>
    /\ op.ret = "ok"
    /\ \E u \in DOMAIN store : u.owner = OpOwner

\* the answers to the requests for a URL the loop over results has passed
Passed == {<<"ok">>, <<"429", "ok">>}

\* the answers to the requests for the URL at which the call failed
Fatal ==
    {<<a>> : a \in {"status", "error"}}
        \cup {<<"429", a>> : a \in {"429", "status", "error"}}

\* C16: delete_messages returns Ok only if every deletion was answered with
\* success; otherwise it returns an error that names the id of the first
\* failed deletion in the order of the id list, whatever the order in which
\* the deletions completed.
C16_FirstFailure ==
    (OpDone /\ op.name = "delete_messages") =>
        /\ op.ret = "ok" <=> \A i \in DOMAIN op.answers : op.answers[i] = <<"ok">>
        /\ op.ret = "ok" <=> op.failed = 0
        /\ op.ret = "err" =>
               /\ op.failed \in DOMAIN op.ids
               /\ op.answers[op.failed][1] # "ok"
               /\ \A j \in 1..(op.failed - 1) : op.answers[j] = <<"ok">>
        /\ \A i \in DOMAIN op.answers : Len(op.answers[i]) = 1

C16_Witness ==
    /\ OpDone /\ op.name = "delete_messages" /\ op.ret = "err"
    /\ Len(op.ids) = 2
    /\ op.order = <<2, 1>>
    /\ op.answers[1][1] # "ok" /\ op.answers[2][1] # "ok"
    /\ op.answers[1] # op.answers[2]
    /\ op.failed = 1

C18_RetryEverywhere ==
    (OpDone /\ op.ret = "err" /\ op.answers[op.failed][1] = "429") =>
        Len(op.answers[op.failed]) = 2

\* C19: when clear_messages fails at a URL of chunk k it returns an error,
\* the URLs whose delete was answered with success are gone from the store,
\* the others are still stored, and no delete request was issued for a URL
\* of a later chunk.
C19_NonTransactional ==
    (OpDone /\ op.name = "clear_messages" /\ op.ret = "err") =>
        /\ op.failed \in Chunk(op)
        /\ \A i \in DOMAIN op.urls :
               /\ i < op.chunk => op.answers[i] \in Passed
               /\ i > ChunkEnd(op.urls, op.chunk) => op.answers[i] = << >>
               /\ op.urls[i] \in DOMAIN store <=>
                      \A k \in DOMAIN op.answers[i] : op.answers[i][k] # "ok"
               /\ op.urls[i] \notin DOMAIN store => op.urls[i] \in deleted
        /\ \A u \in DOMAIN store : store[u] = op.store0[u]

C19_Witness ==
    /\ OpDone /\ op.name = "clear_messages" /\ op.ret = "err"
    /\ Len(op.urls) > BATCH_SIZE
    /\ op.failed < BATCH_SIZE
    /\ op.answers[BATCH_SIZE] = <<"ok">>
    /\ op.urls[BATCH_SIZE] \in deleted
    /\ op.urls[BATCH_SIZE + 1] \in DOMAIN store

\* the listed URLs of a get_messages call were each fetched and gave a
\* message that is returned
AllReturned ==
    /\ Len(call.all_messages) = Len(call.urls)
    /\ \A k \in DOMAIN call.urls :
           /\ Len(call.got[k].pushed) = 1
           /\ Has(call.all_messages, call.got[k].pushed[1])

\* the URLs of prefix are among the URLs the get_messages call listed
Lists(prefix) ==
    \A u \in Listed(prefix) : \E k \in DOMAIN call.urls : call.urls[k] = u

\* C20: a listing that fails counts as a listing of no object.  When its
\* listing fails clear_messages returns Ok and issues no delete; when the
\* store serves every object, get_messages returns Ok with the messages of
\* each prefix whose listing was answered, and with none if both failed.
C20_ListFailure ==
    /\ (OpDone /\ op.name = "clear_messages" /\ ~op.listed) =>
           /\ op.ret = "ok"
           /\ op.urls = << >>
           /\ store = op.store0
    /\ Done =>
           /\ call.ret = "ok"
           /\ AllReturned
           /\ call.listed[1] => Lists(SelfPrefix(call.caller, call.other))
           /\ call.listed[2] => Lists(OtherPrefix(call.caller, call.other))
           /\ ~call.listed[1] =>
                  \A k \in DOMAIN call.urls :
                      call.urls[k].owner # to_string(public_key(call.caller))
           /\ call.listed = <<FALSE, FALSE>> => call.all_messages = << >>

C20_Witness ==
    /\ OpDone /\ op.name = "clear_messages" /\ ~op.listed
    /\ Listed(SelfPrefix(op.caller, op.other)) # {}
    /\ Done /\ call.listed = <<FALSE, TRUE>>
    /\ call.all_messages # << >>
    /\ Listed(SelfPrefix(call.caller, call.other)) # {}

----------------------------------------------------------------------------
(* Claims about the session, checked under SpecSession *)

\* C21: no store operation (put, get, list or delete) is attempted by a
\* client before its sign_in has succeeded: the client of every
\* PrivateMessage::new of a send_message, of every get_messages call and of
\* every deletion call is signed in.  (A session is never given up, so a
\* client that is not signed in was not signed in at its request.)
C21_SessionFirst ==
    /\ \A r \in signed : r.signer \in session
    /\ call.pc # "idle" => call.caller \in session
    /\ op.pc = "done" => op.caller \in session

----------------------------------------------------------------------------
(* Claims about a third party, checked under SpecAdv *)

\* C22: a reader of every path and body of the store who holds neither
\* participant's secret key cannot tell who sent a stored message nor what
\* it says: what it learns of the stored object of a sent message is what
\* it would learn had the other participant sent that message (same
\* content, time and id), and what it would learn had the content been any
\* other.
C22_SenderConfidential ==
    \A s \in sent :
        s.url \in DOMAIN store =>
            LET seen == Observe(s.url, store[s.url])
                swapped == Stored(s.to, s.from, s.content, s.timestamp,
                                  s.url.file)
            IN /\ seen = Observe(swapped.url, swapped.body)
               /\ \A content \in Contents :
                      LET reworded == Stored(s.from, s.to, content,
                                             s.timestamp, s.url.file)
                      IN seen = Observe(reworded.url, reworded.body)

----------------------------------------------------------------------------
(* Claims about the order of the result of get_messages, checked under     *)
(* SpecAdv: every object is served and no operation runs during the call   *)

\* the Vec the call that returned would have returned had the store
\* answered its two listings with self_urls and other_urls
Reread(self_urls, other_urls) ==
    FetchAll(ListOther(ListSelf(call.caller, call.other, self_urls),
                       other_urls),
             AllOk(call.caller, call.other)).all_messages

\* the answers of the store to a listing of prefix, in every order
ListingOrders(prefix) == ListResponses(prefix) \ {Err}

\* the number of times m occurs in messages
Count(messages, m) == Cardinality({i \in DOMAIN messages : messages[i] = m})

\* C23 as claimed: for a fixed store content the list get_messages returns
\* is the same whatever the order in which the store lists the objects.
C23_SameList ==
    (Done /\ call.ret = "ok") =>
        \A self_urls \in ListingOrders(SelfPrefix(call.caller, call.other)),
           other_urls \in ListingOrders(OtherPrefix(call.caller, call.other)) :
            Reread(self_urls, other_urls) = call.all_messages

\* C23 amended: for a fixed store content, whatever the order in which the
\* store lists the objects, get_messages returns the same messages the same
\* number of times and the same sequence of timestamps; the lists differ at
\* most in the order of messages with equal timestamps.
C23_SameMessages ==
    (Done /\ call.ret = "ok") =>
        \A self_urls \in ListingOrders(SelfPrefix(call.caller, call.other)),
           other_urls \in ListingOrders(OtherPrefix(call.caller, call.other)) :
            LET other_list == Reread(self_urls, other_urls)
            IN /\ Len(other_list) = Len(call.all_messages)
               /\ \A i \in DOMAIN other_list :
                      /\ other_list[i].timestamp =
                             call.all_messages[i].timestamp
                      /\ Count(other_list, other_list[i]) =
                             Count(call.all_messages, other_list[i])

C23_Witness ==
    /\ Done /\ call.ret = "ok"
    /\ Len(call.all_messages) = 2
    /\ call.all_messages[1].timestamp = call.all_messages[2].timestamp
    /\ \E self_urls \in ListingOrders(SelfPrefix(call.caller, call.other)) :
           /\ self_urls.val # call.urls
           /\ Reread(self_urls, Ok(<< >>)) # call.all_messages

----------------------------------------------------------------------------
(* Claims about from_recovery_phrase, checked under SpecRecover *)

\* the public key of the client a call returned
RecoveredKey(out) == out.val.keypair.public

\* C24: a second call of from_recovery_phrase with the same phrase,
\* passphrase and language returns a client with the same public key (or
\* fails again); omitting the language is the same as English, omitting the
\* passphrase is the same as the empty passphrase; and any other passphrase
\* gives a client with another public key.
C24_RecoveryDeterminism ==
    made.op = "recover" =>
        LET again == from_recovery_phrase(made.phrase, made.passphrase,
                                          made.language)
            english == from_recovery_phrase(made.phrase, made.passphrase,
                                            Some("English"))
            empty == from_recovery_phrase(made.phrase, Some(""), made.language)
        IN /\ again.ok = made.out.ok
           /\ again.ok => RecoveredKey(again) = RecoveredKey(made.out)
           /\ made.language = None => english = made.out
           /\ made.passphrase = None => empty = made.out
           /\ made.out.ok =>
                  \A pass \in Passphrases \ {unwrap_or(made.passphrase, "")} :
                      LET other == from_recovery_phrase(made.phrase, Some(pass),
                                                        made.language)
                      IN /\ other.ok
                         /\ RecoveredKey(other) # RecoveredKey(made.out)

C24_Witness ==
    /\ made.op = "recover" /\ made.out.ok
    /\ made.passphrase = None /\ made.language = None
    /\ RecoveredKey(made.out) #
           RecoveredKey(from_recovery_phrase(made.phrase, Some("p"), None))

\* the phrase has a wrong word count (the empty phrase has none), a word
\* outside the word list of the language asked for, or is in upper case
Malformed(phrase, language) ==
    \/ phrase.count \notin ValidWordCounts
    \/ phrase.words # unwrap_or(language, "English")
    \/ phrase.upper

\* C25: from_recovery_phrase returns an error, and no client, for a phrase
\* with a wrong word count (the empty phrase included), with words outside
\* the word list, or in upper case; a second call with that input fails too.
C25_MalformedRejected ==
    (made.op = "recover" /\ Malformed(made.phrase, made.language)) =>
        /\ made.out = Err
        /\ from_recovery_phrase(made.phrase, made.passphrase, made.language)
               = Err

C25_Witness ==
    /\ made.op = "recover" /\ made.out = Err
    /\ made.phrase.upper /\ made.phrase.count = 12
    /\ made.phrase.words = "English" /\ made.phrase.checksum
    /\ made.language = None

----------------------------------------------------------------------------
(* Claims about message ids, checked under Spec *)

\* the fields of a PrivateMessage
EnvelopeFields ==
    {"timestamp", "encrypted_sender", "encrypted_content", "signature_bytes"}

\* C26: the ids of the send_message calls are pairwise distinct, and a send
\* never overwrites a stored object: every message reported sent has an id
\* of its own and, until a delete removes it, its object holds the envelope
\* of that send.  The id is the name of the object (the file of its URL)
\* and no field of the envelope.
C26_FreshIds ==
    /\ \A s, t \in sent : s.url.file = t.url.file => s = t
    /\ \A s \in sent :
           s.url \in DOMAIN store =>
               /\ store[s.url] =
                      Stored(s.from, s.to, s.content, s.timestamp,
                             s.url.file).body
               /\ DOMAIN store[s.url].msg = EnvelopeFields
    /\ \A s \in sent : s.url.file \in 1..next_id /\ s.url \notin hostile

C26_Witness ==
    \E s, t \in sent :
        /\ s.url.file # t.url.file
        /\ s.url.owner = t.url.owner /\ s.url.path = t.url.path
        /\ s.content # t.content
        /\ s.url \in DOMAIN store /\ t.url \in DOMAIN store

----------------------------------------------------------------------------
(* Claims about verification in get_messages, checked under SpecAdv *)

\* the decrypted content and sender of an envelope that decrypts
PlainContent(text) == text.msg.encrypted_content.plain.text
PlainSender(text) == text.msg.encrypted_sender.plain.text

\* C29: verify_signature returns Ok(false), not an error, when the
\* signature does not match; it returns an error when the decrypted sender
\* is no public key or signature_bytes is not 64 bytes long, and then
\* get_messages pushes the message with verified = false, goes on with the
\* remaining objects and returns Ok.
C29_VerificationNeverFatal ==
    \A k \in Served :
        LET text == call.got[k].text
        IN Decryptable(text, call.caller, call.other) =>
            LET v == verify_signature(text.msg, PlainContent(text),
                                      PlainSender(text))
                sender_pk == try_from(PlainSender(text))
                wellformed == sender_pk.ok /\ text.msg.signature_bytes.len = 64
            IN /\ wellformed =>
                      /\ v.ok
                      /\ v.val = Verify(sender_pk.val,
                                        Digest(as_bytes(PlainContent(text)),
                                               sender_pk.val,
                                               text.msg.timestamp),
                                        text.msg.signature_bytes)
               /\ ~wellformed =>
                      /\ ~v.ok
                      /\ Len(call.got[k].pushed) = 1
                      /\ ~call.got[k].pushed[1].verified
                      /\ Done => /\ call.ret = "ok"
                                 /\ Len(call.got) = Len(call.urls)
                                 /\ Has(call.all_messages, call.got[k].pushed[1])

C29_Witness ==
    /\ Done /\ call.ret = "ok"
    /\ Len(call.got) = 2
    /\ Decryptable(call.got[1].text, call.caller, call.other)
    /\ PlainSender(call.got[1].text) = BadKeyString
    /\ ~call.got[1].pushed[1].verified
    /\ call.got[2].pushed # << >>
    /\ call.got[2].pushed[1].verified

\* all_messages before the sort: what the turns of the loop pushed, in the
\* order of urls
Accumulated(got) ==
    LET F[k \in 0..Len(got)] ==
            IF k = 0 THEN << >> ELSE F[k - 1] \o got[k].pushed
    IN F[Len(got)]

\* the messages of timestamp t, in their order in messages
AtTime(messages, t) ==
    LET SentAt(m) == m.timestamp = t
    IN SelectSeq(messages, SentAt)

\* C30: the sort of get_messages is stable: the messages of one timestamp
\* are returned in the order in which they were accumulated, and the
\* objects are accumulated in the order of urls, the URLs listed under the
\* caller's own key before those listed under the peer's.
C30_StableSort ==
    (Done /\ call.ret = "ok") =>
        /\ \A t \in Times :
               AtTime(call.all_messages, t) = AtTime(Accumulated(call.got), t)
        /\ \A i, j \in DOMAIN call.urls :
               (i < j /\ call.urls[j].owner = to_string(public_key(call.caller)))
                   => call.urls[i].owner = to_string(public_key(call.caller))

C30_Witness ==
    /\ Done /\ call.ret = "ok"
    /\ Len(call.all_messages) = 2
    /\ call.all_messages[1].timestamp = call.all_messages[2].timestamp
    /\ call.all_messages[1] # call.all_messages[2]
    /\ call.urls[1].file > call.urls[2].file
    /\ call.urls[1].owner = to_string(public_key(call.caller))
    /\ call.urls[2].owner # call.urls[1].owner
    /\ call.all_messages[1] = call.got[1].pushed[1]

----------------------------------------------------------------------------
(* Claims about the fan-out of the deletion calls, checked under SpecDel *)

\* the delete requests of the traced call that are issued and not answered
InFlight ==
    IF op.pc = "join"
        THEN IF op.name = "clear_messages" THEN Chunk(op)
             ELSE {i \in DOMAIN op.urls : op.answers[i] = << >>}
    ELSE IF op.pc = "retry" THEN {op.pos}
    ELSE {}

\* the requests of the traced call that were issued so far
Issued == InFlight \cup {i \in DOMAIN op.answers : op.answers[i] # << >>}

\* the number of the batches before the batch of the i-th listed URL
BatchesBefore(i) == (i - 1) \div BATCH_SIZE

\* C27: clear_messages deletes the listed objects in consecutive batches of
\* at most 5: at most 5 of its delete requests are in flight, and a delete
\* of a batch is issued only when every delete of the batches before it
\* (a retry after 429 included) was answered with success and the pause
\* after each of those batches has elapsed.
C27_BoundedFanOut ==
    op.name = "clear_messages" =>
        /\ Cardinality(InFlight) <= BATCH_SIZE
        /\ \A i \in InFlight : \A j \in InFlight :
               BatchesBefore(i) = BatchesBefore(j)
        /\ \A i \in Issued :
               /\ op.pauses >= BatchesBefore(i)
               /\ \A j \in 1..(BatchesBefore(i) * BATCH_SIZE) :
                      op.answers[j] \in Passed
        /\ \A i \in Issued : i = 1 \/ i - 1 \in Issued

C27_Witness ==
    /\ op.name = "clear_messages" /\ op.pc = "join"
    /\ op.chunk = BATCH_SIZE + 1
    /\ op.pauses = 1
    /\ Cardinality(InFlight) = 2
    /\ \E j \in 1..BATCH_SIZE : op.answers[j] = <<"429", "ok">>

\* C28: in delete_messages, and in each batch of clear_messages, every
\* delete that was issued is answered before the call looks at a result:
\* while a request is unanswered no result is set, and when the call
\* returns an error every request of the fan-out has its answer, and every
\* URL whose delete was answered with success is gone from the store.
C28_NoCancellation ==
    /\ (op.name = "delete_messages" /\ op.pc = "join") =>
           op.ret = "none" /\ op.failed = 0
    /\ (OpDone /\ op.name = "delete_messages") =>
           /\ Len(op.order) = Len(op.urls)
           /\ \A i \in DOMAIN op.urls :
                  /\ Len(op.answers[i]) = 1
                  /\ \E k \in DOMAIN op.order : op.order[k] = i
                  /\ op.answers[i] = <<"ok">> =>
                         op.urls[i] \notin DOMAIN store
    /\ (OpDone /\ op.name = "clear_messages" /\ op.ret = "err") =>
           \A i \in Chunk(op) :
               /\ op.answers[i] # << >>
               /\ op.answers[i][1] = "ok" =>
                      /\ op.urls[i] \notin DOMAIN store
                      /\ op.urls[i] \in deleted

C28_Witness ==
    /\ OpDone /\ op.name = "delete_messages" /\ op.ret = "err"
    /\ Len(op.urls) = 2
    /\ op.order[1] = op.failed
    /\ \E i \in DOMAIN op.urls :
           /\ i # op.failed
           /\ op.answers[i] = <<"ok">>
           /\ op.urls[i] \in deleted
           /\ op.urls[i] \in DOMAIN op.store0

----------------------------------------------------------------------------
(* Claims about replayed envelopes, checked under SpecReplay *)

\* C31: get_messages neither detects a replay nor removes duplicates: a
\* byte-identical copy of a sent envelope stored under another object id,
\* in the namespace of either participant, gives one more message with the
\* sender, the content and the timestamp of the original and verified =
\* true; the result holds that message once for every object that holds
\* the envelope.
C31_NoDeduplication ==
    (Done /\ call.ret = "ok") =>
        /\ Len(call.all_messages) = Len(call.got)
        /\ \A k \in DOMAIN call.got :
               call.urls[k] \in hostile =>
                   \E s \in sent :
                       /\ call.got[k].text =
                              Stored(s.from, s.to, s.content, s.timestamp,
                                     s.url.file).body
                       /\ call.got[k].pushed = <<Visible(s)>>
                       /\ Count(call.all_messages, Visible(s)) =
                              Cardinality({j \in DOMAIN call.got :
                                  call.got[j].text = call.got[k].text})

C31_Witness ==
    /\ Done /\ call.ret = "ok"
    /\ Len(call.got) = 2
    /\ call.got[1].text = call.got[2].text
    /\ call.urls[1].owner # call.urls[2].owner
    /\ call.urls[1] \in hostile
    /\ call.all_messages[1] = call.all_messages[2]
    /\ call.all_messages[1].verified

----------------------------------------------------------------------------
(* Claims about an invalid peer key, checked under SpecInvalid *)

\* C32: with a peer key that cannot be converted to a Diffie-Hellman
\* public value generate_shared_secret returns an error, and send_message,
\* get_messages, delete_message, delete_messages and clear_messages return
\* an error without a put, get, list or delete request: the step of such a
\* call leaves the store and the histories of the requests as they are,
\* and the call's record shows no listing, no URL and no answer.
C32_InvalidPeerNoAccess ==
    [][(\A c \in Client :
           ~generate_shared_secret(keypair_of(c), public_key(BadPeer)).ok)
       /\ (\A s \in sent' : s.to # BadPeer)
       /\ ((made' # made) =>
              (made'.to = BadPeer /\ made'.out = Err
               /\ UNCHANGED <<store, next_id, sent, signed, deleted>>))
       /\ ((call' # call /\ call'.pc # "idle") =>
              (call'.other = BadPeer
               /\ call'.pc = "done" /\ call'.ret = "err"
               /\ call'.listed = << >> /\ call'.got = << >>
               /\ UNCHANGED <<store, deleted>>))
       /\ ((op' # op) =>
              (op'.other = BadPeer
               /\ op'.pc = "done" /\ op'.ret = "err"
               /\ ~op'.listed /\ op'.urls = << >> /\ op'.answers = << >>
               /\ UNCHANGED <<store, deleted>>))]_vars

C32_Witness ==
    /\ store # << >>
    /\ made # NoCall /\ made.to = BadPeer /\ made.out = Err
    /\ call.pc = "done" /\ call.other = BadPeer /\ call.ret = "err"
    /\ op.pc = "done" /\ op.other = BadPeer /\ op.ret = "err"
    /\ op.name = "clear_messages"

----------------------------------------------------------------------------
(* Claims about the sender of a verified message, checked under SpecRelay *)

\* the key strings of the two participants of the conversation of a call
Participants(callrec) ==
    {to_string(public_key(callrec.caller)),
     to_string(public_key(callrec.other))}

\* C33: every message that get_messages(Y) of client X returns with
\* verified = true has the key string of X or of Y as its sender: an
\* envelope signed by a third party Z and encrypted under the key of X and
\* Y is not returned as a verified message of their conversation.
C33_SenderIsParticipant ==
    (Done /\ call.ret = "ok") =>
        \A i \in DOMAIN call.all_messages :
            call.all_messages[i].verified =>
                call.all_messages[i].sender \in Participants(call)

----------------------------------------------------------------------------
(* Claims about the timestamp of an envelope, checked under SpecAdv *)

\* m is an envelope party 1 made with nothing but its timestamp changed
Restamped(m) ==
    \E e \in ObservedMessages :
        /\ m.timestamp # e.timestamp
        /\ m.encrypted_content = e.encrypted_content
        /\ m.encrypted_sender = e.encrypted_sender
        /\ m.signature_bytes = e.signature_bytes

\* C34: an envelope whose timestamp was changed, its ciphertexts and its
\* signature left as they were, does not verify, and get_messages does not
\* return it as verified; the timestamp of every message returned with
\* verified = true, by which the result is sorted, is the timestamp of the
\* digest its signature was made for.
C34_TimestampBinding ==
    \A k \in Served :
        LET text == call.got[k].text
            pushed == call.got[k].pushed
        IN /\ (text.parsable /\ Restamped(text.msg)) =>
                  \A i \in DOMAIN pushed : ~pushed[i].verified
           /\ \A i \in DOMAIN pushed :
                  pushed[i].verified =>
                      /\ text.msg.signature_bytes.digest =
                             Digest(as_bytes(pushed[i].content),
                                    text.msg.signature_bytes.key,
                                    pushed[i].timestamp)
                      /\ pushed[i].timestamp = text.msg.timestamp

C34_Witness ==
    /\ Done /\ call.ret = "ok"
    /\ \E k \in Served :
           /\ call.urls[k] \in hostile
           /\ Restamped(call.got[k].text.msg)
           /\ call.got[k].pushed # << >>
           /\ ~call.got[k].pushed[1].verified
           /\ call.got[k].pushed[1].sender = to_string(public_key(1))
    /\ \E i \in DOMAIN call.all_messages :
           /\ call.all_messages[i].verified
           /\ call.all_messages[i].sender = to_string(public_key(1))

----------------------------------------------------------------------------
(* Claims about a deletion during get_messages, checked under Spec *)

\* the k-th URL of the call is that of a sent message, listed by the call,
\* that was deleted before the call asked for it
GoneBeforeFetch(k) ==
    /\ \E s \in sent : s.url = call.urls[k]
    /\ call.got[k].text = Unparsable

\* C35: an object deleted after get_messages listed it and before
\* get_messages asks for it, whose get is answered with a non-success
\* status, is skipped: nothing is pushed for it, the call goes on, it fails
\* only when some get fails or a body cannot be read, and otherwise it
\* returns Ok with every message of the other objects.
C35_DeletionTolerated ==
    \A k \in DOMAIN call.got :
        (GoneBeforeFetch(k) /\ call.got[k].status = "status") =>
            /\ call.urls[k] \in deleted
            /\ call.got[k].pushed = << >>
            /\ call.pc \in {"fetch", "done"}
            /\ call.pc = "fetch" => Len(call.got) < Len(call.urls)
            /\ (Done /\ call.ret = "err") =>
                   call.got[Len(call.got)].status \in {"error", "body"}
            /\ (Done /\ call.ret = "ok") =>
                   /\ Len(call.got) = Len(call.urls)
                   /\ \A j \in DOMAIN call.got :
                          \A i \in DOMAIN call.got[j].pushed :
                              Has(call.all_messages, call.got[j].pushed[i])
                   /\ \A j \in DOMAIN call.got :
                          (call.got[j].status = "ok"
                           /\ \E s \in sent : s.url = call.urls[j]) =>
                              call.got[j].pushed # << >>

C35_Witness ==
    /\ Done /\ call.ret = "ok"
    /\ \E k \in DOMAIN call.got :
           /\ GoneBeforeFetch(k)
           /\ call.got[k].status = "status"
           /\ call.urls[k] \notin call.dead0
    /\ call.all_messages # << >>

----------------------------------------------------------------------------
(* Claims about the listing of clear_messages, checked under SpecSnap *)

\* the messages the caller stored after the listing of the call
SentAfterListing == {s \in sent : s.url \notin OpUrls}

\* C36: clear_messages deletes the objects its one listing returned and no
\* other: a message its caller stores with send_message after the listing
\* and before the call returns is never deleted by the call, and after the
\* call returned Ok the objects of the listing are gone while that message
\* is stored and get_messages returns it.
C36_ListingSnapshot ==
    (op.name = "clear_messages" /\ op.listed) =>
        /\ deleted \subseteq OpUrls
        /\ \A s \in SentAfterListing : s.url \in DOMAIN store
        /\ (OpDone /\ op.ret = "ok") => OpUrls \cap DOMAIN store = {}
        /\ (OpDone /\ Done /\ call.ret = "ok") =>
               \A s \in SentAfterListing :
                   Has(call.all_messages, Visible(s))

C36_Witness ==
    /\ op.name = "clear_messages" /\ OpDone /\ op.ret = "ok"
    /\ op.urls # << >>
    /\ \E s \in SentAfterListing :
           /\ s.url.file <= Len(op.urls) + 1
           /\ Done /\ call.all_messages = <<Visible(s)>>

----------------------------------------------------------------------------
(* Claims about the requests of get_messages, checked under Spec *)

\* a step of a get_messages call: the answer to a listing or to a get
GetMessagesStep == call' # call /\ call'.pc # "idle"

\* C37: get_messages issues list and get requests only, no put and no
\* delete: every step of a get_messages call, whatever the store answers
\* and whatever the call returns, leaves the stored objects and the
\* histories of the puts and of the deletes as they are.
C37_ReadOnly ==
    [][GetMessagesStep =>
           /\ store' = store
           /\ UNCHANGED <<sent, deleted, hostile, next_id, signed>>]_vars

C37_Witness ==
    /\ Done
    /\ call.got # << >>
    /\ \E k \in DOMAIN call.got :
           /\ call.urls[k] \in DOMAIN store
           /\ call.got[k].pushed = << >>
           /\ call.got[k].status \in {"ok", "status"}
    /\ call.ret = "err"

----------------------------------------------------------------------------
(* Claims about the termination of clear_messages, checked under SpecClear *)

\* the delete requests the call has issued and the store has answered
DeleteRequests ==
    LET F[k \in 0..Len(op.answers)] ==
            IF k = 0 THEN 0 ELSE F[k - 1] + Len(op.answers[k])
    IN F[Len(op.answers)]

\* C38: when the store answers every request, a clear_messages call over n
\* listed objects returns, with Ok or with an error, whatever the answers
\* are and however many of them are 429; it asks for one listing and for
\* at most two deletes of each listed object, at most 2 * n deletes.
C38_Terminates ==
    /\ [](op.name = "clear_messages" =>
             /\ \A i \in DOMAIN op.answers : Len(op.answers[i]) <= 2
             /\ DeleteRequests <= 2 * Len(op.urls)
             /\ OpDone => op.ret \in {"ok", "err"})
    /\ (op.name = "clear_messages") ~> OpDone

C38_Witness ==
    /\ op.name = "clear_messages" /\ OpDone /\ op.ret = "ok"
    /\ Len(op.urls) > BATCH_SIZE
    /\ DeleteRequests = 2 * Len(op.urls)

----------------------------------------------------------------------------
(* Claims about the pauses of clear_messages, checked under SpecDel *)

\* the number of chunks of urls.chunks(BATCH_SIZE) for n URLs
Batches(n) == (n + BATCH_SIZE - 1) \div BATCH_SIZE

\* C39: a clear_messages call that goes through b batches without a
\* failure has paused exactly b - 1 times when it returns: once between
\* every two consecutive batches and not after the last batch.
C39_PausesBetween ==
    (OpDone /\ op.name = "clear_messages" /\ op.ret = "ok"
        /\ op.urls # << >>) =>
        op.pauses = Batches(Len(op.urls)) - 1

====
